---- MODULE Spec2Model ----
(***************************************************************************)
(* Model of docmanager2: the metadata validator, the document/version      *)
(* ledger kept by DocumentRepository, and DocumentService.create_document  *)
(* over the local storage backend.  Request handlers run concurrently,     *)
(* each in its own database session; a session sees committed rows at the *)
(* moment it queries and writes all its pending changes in one commit.     *)
(***************************************************************************)
EXTENDS Integers, Sequences, FiniteSets, TLC

VARIABLES
    documents,              \* table documents: id -> row
    document_versions,      \* table document_versions: id -> row
    metadata_fields,        \* table metadata_fields: id -> row
    document_types,         \* table document_types: id -> row
    document_type_metadata, \* association table: set of rows
    uploads,                \* local storage directory: set of [path, state]
    uuid_ctr,               \* number of uuid4 values drawn so far
    sess,                   \* one record per request handler
    vq,                     \* validator query under test: [phase, type_id, metadata, result]
    categories,             \* table categories: id -> row
    category_hierarchy      \* association table: set of [parent_id, child_id]

vars == <<documents, document_versions, metadata_fields, document_types,
          document_type_metadata, uploads, uuid_ctr, sess, vq, categories, category_hierarchy>>

----------------------------------------------------------------------------
(* Bounds of the model *)

MaxVersions == 2    \* version rows per document
MaxFiles    == 1    \* uuid4 names drawn, so files saved and documents created
MaxListLen  == 2    \* elements in a multi-valued metadata value

----------------------------------------------------------------------------
(* JSON values.  A string is a sequence of one-character strings. *)

JNull     == [t |-> "null",  s |-> <<>>, items |-> <<>>]
JStr(s)   == [t |-> "str",   s |-> s,    items |-> <<>>]
JInt(s)   == [t |-> "int",   s |-> s,    items |-> <<>>]
JFloat(s) == [t |-> "float", s |-> s,    items |-> <<>>]
JBool(b)  == [t |-> "bool",  s |-> IF b THEN <<"T">> ELSE <<"F">>, items |-> <<>>]
JList(xs) == [t |-> "list",  s |-> <<>>, items |-> xs]

\* Optional[str] columns
None      == [some |-> FALSE, s |-> <<>>]
Some(s)   == [some |-> TRUE,  s |-> s]
truthy(o) == o.some /\ o.s # <<>>

\* Python isinstance on JSON-decoded values (bool is a subclass of int)
isinstance(value, cls) ==
    CASE cls = "str"  -> value.t = "str"
      [] cls = "int"  -> value.t \in {"int", "bool"}
      [] cls = "bool" -> value.t = "bool"
      [] cls = "list" -> value.t = "list"

\* str.strip(): drop leading and trailing whitespace
RECURSIVE lstrip(_)
lstrip(s) == IF s # <<>> /\ Head(s) = " " THEN lstrip(Tail(s)) ELSE s

RECURSIVE rstrip(_)
rstrip(s) == IF s # <<>> /\ s[Len(s)] = " " THEN rstrip(SubSeq(s, 1, Len(s) - 1)) ELSE s

strip(s) == rstrip(lstrip(s))

\* str.split(','): always at least one piece
RECURSIVE split_acc(_, _, _)
split_acc(s, cur, out) ==
    IF s = <<>> THEN Append(out, cur)
    ELSE IF Head(s) = "," THEN split_acc(Tail(s), <<>>, Append(out, cur))
    ELSE split_acc(Tail(s), Append(cur, Head(s)), out)

split(s) == split_acc(s, <<>>, <<>>)

\* a variant that forgets v.strip()
valid_values_unstripped(field) == split(field.enum_values.s)

\* [v.strip() for v in field.enum_values.split(',')]
valid_values(field) ==
    LET parts == split(field.enum_values.s)
    IN  [i \in 1..Len(parts) |-> strip(parts[i])]

\* datetime.fromisoformat accepts exactly the strings of this form
IsoStrings == {<<"1", "-", "1">>}
fromisoformat_raises(value) == ~(value.t = "str" /\ value.s \in IsoStrings)

\* json.loads accepts exactly the strings of this form
JsonStrings == {<<"{", "}">>}
json_loads_raises(s) == s \notin JsonStrings

----------------------------------------------------------------------------
(* Errors *)

NoErr == [kind |-> "none", tag |-> "", field |-> "", valid |-> <<>>]
MetadataValidationError(tag, field, valid) ==
    [kind |-> "MetadataValidationError", tag |-> tag, field |-> field, valid |-> valid]
Raise(kind) == [kind |-> kind, tag |-> "", field |-> "", valid |-> <<>>]

Ok      == [ok |-> TRUE,  err |-> NoErr]
Fail(e) == [ok |-> FALSE, err |-> e]

----------------------------------------------------------------------------
(* Metadata schema registry, as the validator reads it *)

RECURSIVE SortedSeq(_)
SortedSeq(S) ==
    IF S = {} THEN <<>>
    ELSE LET m == CHOOSE x \in S : \A y \in S : x <= y
         IN  <<m>> \o SortedSeq(S \ {m})

\* DocumentTypeRepository.get_document_type: the row, if any
has_document_type(type_id) == type_id \in DOMAIN document_types

\* doc_type.metadata_fields: the fields joined through the association table
doc_type_metadata_fields(type_id) ==
    SortedSeq({r.metadata_field_id : r \in {a \in document_type_metadata :
                   /\ a.document_type_id = type_id
                   /\ a.metadata_field_id \in DOMAIN metadata_fields}})

\* a variant that answers from the association rows read when the process started
metadata_fields_association_cached(type_id) ==
    {a \in {[document_type_id |-> 1, metadata_field_id |-> 1, is_required |-> TRUE],
            [document_type_id |-> 2, metadata_field_id |-> 2, is_required |-> FALSE]} :
        a.document_type_id = type_id}

\* doc_type.metadata_fields_association: the association rows of the type
metadata_fields_association(type_id) ==
    {a \in document_type_metadata : a.document_type_id = type_id}

\* keys of a metadata map (a JSON object, in insertion order)
Keys(metadata_values) == {metadata_values[i].k : i \in 1..Len(metadata_values)}

----------------------------------------------------------------------------
(* MetadataService: the validator *)

\* a variant without the early return for None
validate_metadata_value_null_checked(field, value) ==
    IF field.field_type = "text" /\ ~isinstance(value, "str")
        THEN Fail(MetadataValidationError("must be a string", field.name, <<>>))
    ELSE IF field.field_type = "integer" /\ ~isinstance(value, "int")
        THEN Fail(MetadataValidationError("must be an integer", field.name, <<>>))
    ELSE IF field.field_type = "date" /\ fromisoformat_raises(value)
        THEN Fail(MetadataValidationError("must be a valid ISO date string", field.name, <<>>))
    ELSE IF field.field_type = "enum" /\ ~truthy(field.enum_values)
        THEN Fail(MetadataValidationError("No enum values defined", field.name, <<>>))
    ELSE IF field.field_type = "enum"
            /\ ~(value.t = "str" /\ \E i \in 1..Len(valid_values(field)) :
                                        valid_values(field)[i] = value.s)
        THEN Fail(MetadataValidationError("must be one of", field.name, valid_values(field)))
    ELSE IF field.field_type = "boolean" /\ ~isinstance(value, "bool")
        THEN Fail(MetadataValidationError("must be a boolean", field.name, <<>>))
    ELSE IF truthy(field.validation_rules) /\ json_loads_raises(field.validation_rules.s)
        THEN Fail(MetadataValidationError("Validation error", field.name, <<>>))
    ELSE Ok

\* if value is None: return True; then the check of the field's type
validate_metadata_value(field, value) ==
    IF value.t = "null" THEN Ok
    ELSE IF field.field_type = "text" /\ ~isinstance(value, "str")
        THEN Fail(MetadataValidationError("must be a string", field.name, <<>>))
    ELSE IF field.field_type = "integer" /\ ~isinstance(value, "int")
        THEN Fail(MetadataValidationError("must be an integer", field.name, <<>>))
    ELSE IF field.field_type = "date" /\ fromisoformat_raises(value)
        THEN Fail(MetadataValidationError("must be a valid ISO date string", field.name, <<>>))
    ELSE IF field.field_type = "enum" /\ ~truthy(field.enum_values)
        THEN Fail(MetadataValidationError("No enum values defined", field.name, <<>>))
    ELSE IF field.field_type = "enum"
            /\ ~(value.t = "str" /\ \E i \in 1..Len(valid_values(field)) :
                                        valid_values(field)[i] = value.s)
        THEN Fail(MetadataValidationError("must be one of", field.name, valid_values(field)))
    ELSE IF field.field_type = "boolean" /\ ~isinstance(value, "bool")
        THEN Fail(MetadataValidationError("must be a boolean", field.name, <<>>))
    ELSE IF truthy(field.validation_rules) /\ json_loads_raises(field.validation_rules.s)
        THEN Fail(MetadataValidationError("Validation error", field.name, <<>>))
    ELSE Ok

\* a variant that checks only the first element of the sequence
validate_each_first(field, items) ==
    IF items = <<>> THEN Ok ELSE validate_metadata_value(field, Head(items))

\* for single_value in value: self.validate_metadata_value(field, single_value)
RECURSIVE validate_each(_, _)
validate_each(field, items) ==
    IF items = <<>> THEN Ok
    ELSE LET r == validate_metadata_value(field, Head(items))
         IN  IF r.ok THEN validate_each(field, Tail(items)) ELSE r

\* the "Check required fields" loop
RECURSIVE check_required(_, _, _)
check_required(type_id, fields, metadata_values) ==
    IF fields = <<>> THEN Ok
    ELSE LET field == metadata_fields[Head(fields)]
             is_required == \E assoc \in metadata_fields_association(type_id) :
                                /\ assoc.metadata_field_id = Head(fields)
                                /\ assoc.is_required
         IN  IF is_required /\ field.name \notin Keys(metadata_values)
             THEN Fail(MetadataValidationError("Required field missing", field.name, <<>>))
             ELSE check_required(type_id, Tail(fields), metadata_values)

\* one iteration of the "Validate provided values" loop
validate_item(type_id, field_name, value) ==
    LET found == {f \in DOMAIN metadata_fields :
                     /\ \E i \in 1..Len(doc_type_metadata_fields(type_id)) :
                            doc_type_metadata_fields(type_id)[i] = f
                     /\ metadata_fields[f].name = field_name}
    IN  IF found = {}
        THEN Fail(MetadataValidationError("Unknown metadata field", field_name, <<>>))
        ELSE LET field == metadata_fields[CHOOSE f \in found : \A g \in found : f <= g]
             IN  IF field.is_multi_valued
                 THEN IF ~isinstance(value, "list")
                      THEN Fail(MetadataValidationError("expects multiple values", field_name, <<>>))
                      ELSE validate_each(field, value.items)
                 ELSE validate_metadata_value(field, value)

RECURSIVE validate_items(_, _)
validate_items(type_id, metadata_values) ==
    IF metadata_values = <<>> THEN Ok
    ELSE LET r == validate_item(type_id, Head(metadata_values).k, Head(metadata_values).v)
         IN  IF r.ok THEN validate_items(type_id, Tail(metadata_values)) ELSE r

validate_document_metadata(document_type_id, metadata_values) ==
    IF ~has_document_type(document_type_id)
    THEN Fail(MetadataValidationError("Document type not found", "", <<>>))
    ELSE LET r == check_required(document_type_id,
                                 doc_type_metadata_fields(document_type_id),
                                 metadata_values)
         IN  IF ~r.ok THEN r ELSE validate_items(document_type_id, metadata_values)

----------------------------------------------------------------------------
(* Rows and request handlers *)

Sessions == {"s1", "s2"}    \* concurrent request handlers, one database session each

NullPath == [uuid |-> 0, ext |-> ""]
NullName == "NULL"
NullSize == -1
NullJson == [null |-> TRUE,  map |-> <<>>]
Json(m)  == [null |-> FALSE, map |-> m]
NoRow    == [title |-> "", content |-> "", file_path |-> NullPath,
             file_name |-> NullName, file_size |-> NullSize,
             document_type_id |-> 0, metadata_values |-> NullJson]
NoFile   == [name |-> NullName, ext |-> "", size |-> NullSize]

IdleSess == [op |-> "idle", pc |-> "idle", document_id |-> 0, title |-> "",
             content |-> "", file |-> NoFile, document_type_id |-> 0,
             metadata_values |-> <<>>, db_document |-> NoRow, version_number |-> 0,
             file_path |-> NullPath, committed |-> FALSE, err |-> NoErr,
             name |-> "", field_id |-> 0, is_required |-> FALSE,
             field_associations |-> <<>>, next_assoc |-> 0,
             backend |-> "", result |-> FALSE,
             filename |-> "", skip |-> 0, limit |-> 0, found |-> <<>>,
             category_id |-> 0, tree |-> <<>>]

VqOff == [phase |-> "off", type_id |-> 0, metadata |-> <<>>, result |-> Ok]

----------------------------------------------------------------------------
(* The validator on its own: registry states and metadata maps drawn from  *)
(* bounded sets, validate_document_metadata applied to each.               *)

Chars_a    == <<"a">>
Chars_b    == <<"b">>
Chars_c    == <<"c">>
Chars_spa  == <<" ", "a">>
Chars_iso  == <<"1", "-", "1">>

FieldTypes   == {"text", "integer", "date", "enum", "boolean"}
EnumDomains  == {None, Some(<<>>), Some(<<"a">>), Some(<<"a", ",", " ", "b", " ">>)}
RuleStrings  == {None, Some(<<"{", "}">>), Some(<<"x">>)}

Field1Configs ==
    {[name |-> "n1", field_type |-> ft, is_multi_valued |-> mv,
      enum_values |-> ev, validation_rules |-> vr] :
        ft \in FieldTypes, mv \in BOOLEAN, ev \in EnumDomains, vr \in RuleStrings}

Field2Config ==
    [name |-> "n2", field_type |-> "text", is_multi_valued |-> FALSE,
     enum_values |-> None, validation_rules |-> None]

Scalars == {JNull, JStr(Chars_a), JStr(Chars_b), JStr(Chars_c), JStr(Chars_spa),
            JStr(Chars_iso), JInt(<<"1">>), JFloat(<<"1", ".", "5">>),
            JBool(TRUE)}

Elements == {JNull, JStr(Chars_a), JStr(Chars_c), JInt(<<"1">>)}

Lists == {JList(xs) : xs \in UNION {[1..n -> Elements] : n \in 0..MaxListLen}}

\* requested association of a field with the type: absent, optional or required
AssocChoices == {"absent", "optional", "required"}
AssocRows(type_id, field_id, choice) ==
    IF choice = "absent" THEN {}
    ELSE {[document_type_id |-> type_id, metadata_field_id |-> field_id,
           is_required |-> (choice = "required")]}

Entry(k, present, v) == IF present THEN <<[k |-> k, v |-> v]>> ELSE <<>>

ValidateInit ==
    /\ documents = <<>>
    /\ document_versions = <<>>
    /\ uploads = {}
    /\ uuid_ctr = 0
    /\ sess = [p \in Sessions |-> IdleSess]
    /\ categories = <<>>
    /\ category_hierarchy = {}
    /\ document_types = (1 :> [name |-> "Policy"])
    /\ \E f1 \in Field1Configs :
         /\ (f1.field_type # "enum" => f1.enum_values = None)
         /\ metadata_fields = (1 :> f1) @@ (2 :> Field2Config)
    /\ \E c1 \in AssocChoices, c2 \in AssocChoices :
         document_type_metadata = AssocRows(1, 1, c1) \cup AssocRows(1, 2, c2)
    /\ \E t \in {1, 2}, p1 \in BOOLEAN, v1 \in Scalars \cup Lists,
          v2 \in {JNull, JStr(Chars_a), JInt(<<"1">>)}, p2 \in BOOLEAN, p3 \in BOOLEAN :
         /\ (~p1 => v1 = JNull)
         /\ (~p2 => v2 = JNull)
         /\ vq = [phase |-> "ready", type_id |-> t,
                  metadata |-> Entry("n1", p1, v1) \o Entry("n2", p2, v2)
                               \o Entry("zz", p3, JStr(Chars_a)),
                  result |-> Ok]

\* the call MetadataService.validate_document_metadata(type_id, metadata)
Validate ==
    /\ vq.phase = "ready"
    /\ vq' = [vq EXCEPT !.phase = "done",
                        !.result = validate_document_metadata(vq.type_id, vq.metadata)]
    /\ UNCHANGED <<documents, document_versions, metadata_fields, document_types,
                   document_type_metadata, uploads, uuid_ctr, sess,
                   categories, category_hierarchy>>

NextValidate == Validate

SpecValidate == ValidateInit /\ [][NextValidate]_vars

----------------------------------------------------------------------------
(* Properties of the validator (specification SpecValidate) *)

VqDone     == vq.phase = "done"
VqHas(k)   == k \in Keys(vq.metadata)
VqVal(k)   == (CHOOSE i \in 1..Len(vq.metadata) : vq.metadata[i].k = k) 
VqValue(k) == vq.metadata[VqVal(k)].v
Assoc(t, f) == \E a \in document_type_metadata :
                  a.document_type_id = t /\ a.metadata_field_id = f
Required(t, f) == \E a \in document_type_metadata :
                  a.document_type_id = t /\ a.metadata_field_id = f /\ a.is_required

\* the enumeration domain as the specification describes it
EnumEntries(field) ==
    {strip(split(field.enum_values.s)[i]) : i \in 1..Len(split(field.enum_values.s))}
EnumEntrySeq(field) ==
    [i \in 1..Len(split(field.enum_values.s)) |-> strip(split(field.enum_values.s)[i])]

\* "matches its field's declared type", as the specification lists the types
ScalarMatches(field, x) ==
    CASE field.field_type = "text"    -> x.t = "str"
      [] field.field_type = "integer" -> x.t = "int"
      [] field.field_type = "date"    -> x.t = "str" /\ x.s \in IsoStrings
      [] field.field_type = "enum"    -> /\ field.enum_values.some
                                         /\ field.enum_values.s # <<>>
                                         /\ x.t = "str"
                                         /\ x.s \in EnumEntries(field)
      [] field.field_type = "boolean" -> x.t = "bool"

ValueMatches(field, v) ==
    IF field.is_multi_valued
    THEN v.t = "list" /\ \A i \in 1..Len(v.items) : ScalarMatches(field, v.items[i])
    ELSE ScalarMatches(field, v)

RequiredPresent(t, m) ==
    \A f \in DOMAIN metadata_fields :
        Required(t, f) => metadata_fields[f].name \in Keys(m)

KeysAssociated(t, m) ==
    \A i \in 1..Len(m) : \E f \in DOMAIN metadata_fields :
        Assoc(t, f) /\ metadata_fields[f].name = m[i].k

ValuesMatch(t, m) ==
    \A i \in 1..Len(m) : \A f \in DOMAIN metadata_fields :
        (Assoc(t, f) /\ metadata_fields[f].name = m[i].k)
            => ValueMatches(metadata_fields[f], m[i].v)

EnumConfigured(field) == field.enum_values.some /\ field.enum_values.s # <<>>
RulesParse(field) ==
    ~(field.validation_rules.some /\ field.validation_rules.s # <<>>
      /\ field.validation_rules.s \notin JsonStrings)

\* no value of the map is null or holds a null element
NoNulls(m) ==
    \A i \in 1..Len(m) :
        /\ m[i].v.t # "null"
        /\ m[i].v.t = "list" => \A j \in 1..Len(m[i].v.items) : m[i].v.items[j].t # "null"

\* every field's validation_rules are empty or parse as JSON
RulesParseAll == \A f \in DOMAIN metadata_fields : RulesParse(metadata_fields[f])

\* C5: for an existing type, validation succeeds exactly when required fields
\* are present, every key is an associated field, and every value matches its
\* field's declared type and multiplicity. Stated for maps without null values
\* and fields whose validation_rules parse, where the claim's three conditions
\* are all the validator looks at.
C5_ValidateIffConforms ==
    (VqDone /\ has_document_type(vq.type_id) /\ NoNulls(vq.metadata) /\ RulesParseAll) =>
        (vq.result.ok <=> /\ RequiredPresent(vq.type_id, vq.metadata)
                          /\ KeysAssociated(vq.type_id, vq.metadata)
                          /\ ValuesMatch(vq.type_id, vq.metadata))

\* the metadata map consists of the key n1 only, n1 is associated with the
\* queried type and no other field is required
OnlyN1 ==
    /\ VqDone /\ vq.type_id = 1
    /\ Keys(vq.metadata) = {"n1"}
    /\ Assoc(1, 1) /\ ~Required(1, 2)

\* C6: a multi-valued field accepts only a sequence whose elements each pass
\* the per-value check; a scalar fails with "expects multiple values"; one
\* failing element fails the whole value; a single-valued field is checked
\* directly.
C6_Multiplicity ==
    OnlyN1 =>
        LET f == metadata_fields[1]
            v == VqValue("n1")
        IN  IF f.is_multi_valued
            THEN /\ vq.result.ok =>
                        /\ v.t = "list"
                        /\ \A i \in 1..Len(v.items) :
                               validate_metadata_value(f, v.items[i]).ok
                 /\ v.t # "list" =>
                        vq.result = Fail(MetadataValidationError(
                                            "expects multiple values", "n1", <<>>))
                 /\ (v.t = "list" /\ \E i \in 1..Len(v.items) :
                                        ~validate_metadata_value(f, v.items[i]).ok)
                        => ~vq.result.ok
                 /\ (v.t = "list" /\ \A i \in 1..Len(v.items) :
                                        validate_metadata_value(f, v.items[i]).ok)
                        => vq.result.ok
            ELSE vq.result = validate_metadata_value(f, v)

C6_Witness ==
    /\ OnlyN1
    /\ metadata_fields[1].is_multi_valued
    /\ metadata_fields[1].field_type = "text"
    /\ VqValue("n1") = JList(<<JStr(Chars_a), JInt(<<"1">>)>>)
    /\ vq.result = Fail(MetadataValidationError("must be a string", "n1", <<>>))

\* C7 (as claimed): an Enum value is accepted iff it equals one of the trimmed
\* comma-separated entries; a value outside is rejected with the error naming
\* the field and the valid set; without enum_values every value is rejected.
C7_EnumIffMember ==
    (OnlyN1 /\ metadata_fields[1].field_type = "enum"
            /\ ~metadata_fields[1].is_multi_valued) =>
        LET f == metadata_fields[1]
            v == VqValue("n1")
            member == v.t = "str" /\ v.s \in EnumEntries(f)
        IN  IF EnumConfigured(f)
            THEN /\ vq.result.ok <=> member
                 /\ ~member => vq.result = Fail(MetadataValidationError(
                                   "must be one of", "n1", EnumEntrySeq(f)))
            ELSE vq.result = Fail(MetadataValidationError(
                                   "No enum values defined", "n1", <<>>))

\* C7 (amended): the same for every non-null value, acceptance also needing
\* the field's validation_rules to be empty or to parse; null is accepted
\* whatever the enumeration domain.
C7_EnumNonNull ==
    (OnlyN1 /\ metadata_fields[1].field_type = "enum"
            /\ ~metadata_fields[1].is_multi_valued) =>
        LET f == metadata_fields[1]
            v == VqValue("n1")
            member == v.t = "str" /\ v.s \in EnumEntries(f)
        IN  IF v.t = "null" THEN vq.result.ok
            ELSE IF EnumConfigured(f)
            THEN /\ vq.result.ok <=> (member /\ RulesParse(f))
                 /\ ~member => vq.result = Fail(MetadataValidationError(
                                   "must be one of", "n1", EnumEntrySeq(f)))
            ELSE vq.result = Fail(MetadataValidationError(
                                   "No enum values defined", "n1", <<>>))

C7_Witness ==
    /\ OnlyN1 /\ metadata_fields[1].field_type = "enum"
    /\ ~metadata_fields[1].is_multi_valued
    /\ metadata_fields[1].enum_values = Some(<<"a", ",", " ", "b", " ">>)
    /\ VqValue("n1") = JStr(Chars_spa)
    /\ vq.result = Fail(MetadataValidationError("must be one of", "n1",
                                                <<Chars_a, Chars_b>>))

----------------------------------------------------------------------------
(* Documents, versions and storage: the request handlers *)

\* request inputs
CreateTitles == {"Report Q1"}
Titles       == {"Report Q2"}
Contents     == {"c1"}
Files        == {[name |-> "report.txt", ext |-> ".txt", size |-> 12]}
DocIds       == {1, MaxFiles + 1}   \* the first document, and an id that never exists

\* the registry of Scenario 1: type Policy requires the Boolean field confidential
ConfidentialField ==
    [name |-> "confidential", field_type |-> "boolean", is_multi_valued |-> FALSE,
     enum_values |-> None, validation_rules |-> None]
\* (document_type_id, metadata_values) of a create request; 0 is "no type", 2 does not exist
CreateArgs == {<<0, <<>> >>, <<1, <<[k |-> "confidential", v |-> JBool(TRUE)]>> >>,
               <<1, <<>> >>, <<2, <<>> >>}

Init ==
    /\ documents = <<>>
    /\ document_versions = <<>>
    /\ metadata_fields = (1 :> ConfidentialField)
    /\ document_types = (1 :> [name |-> "Policy"])
    /\ document_type_metadata =
           {[document_type_id |-> 1, metadata_field_id |-> 1, is_required |-> TRUE]}
    /\ uploads = {}
    /\ uuid_ctr = 0
    /\ sess = [p \in Sessions |-> IdleSess]
    /\ categories = <<>>
    /\ category_hierarchy = {}
    /\ vq = VqOff

\* INTEGER PRIMARY KEY of SQLite: one more than the largest id in the table
NextId(table) ==
    IF DOMAIN table = {} THEN 1
    ELSE 1 + (CHOOSE x \in DOMAIN table : \A y \in DOMAIN table : y <= x)

\* a variant that writes the new row over the row with the largest id
Insert_replacing(table, row) ==
    IF DOMAIN table = {} THEN (1 :> row)
    ELSE [table EXCEPT ![NextId(table) - 1] = row]

Insert(table, row) == table @@ (NextId(table) :> row)
Remove(table, ids) == [i \in DOMAIN table \ ids |-> table[i]]

\* db_document.versions: the version rows whose document_id is the document's
versions(document_id) ==
    {i \in DOMAIN document_versions : document_versions[i].document_id = document_id}

\* order_by(DocumentVersion.version_number.asc()).all(); rows with equal
\* numbers come in rowid order
RECURSIVE order_by_version_number(_)
order_by_version_number(ids) ==
    IF ids = {} THEN <<>>
    ELSE LET first == CHOOSE i \in ids : \A j \in ids :
                         \/ document_versions[i].version_number
                              < document_versions[j].version_number
                         \/ /\ document_versions[i].version_number
                                 = document_versions[j].version_number
                            /\ i <= j
         IN  <<document_versions[first]>> \o order_by_version_number(ids \ {first})

get_versions(document_id) == order_by_version_number(versions(document_id))

\* order_by(DocumentVersion.version_number.desc()).first(), None without rows
NoVersion == [document_id |-> 0, version_number |-> 0]
get_latest_version(document_id) ==
    IF versions(document_id) = {} THEN NoVersion
    ELSE LET vs == get_versions(document_id) IN vs[Len(vs)]

\* the unit of work writes only the attributes the session changed
FlushColumn(committed, loaded, current) == IF current # loaded THEN current ELSE committed

\* a handler ends: its result stays in the session until the response is sent
Finish(p, e) ==
    [sess[p] EXCEPT !.pc = "done", !.err = e, !.title = "", !.content = "",
                    !.metadata_values = <<>>, !.db_document = NoRow,
                    !.version_number = 0]

Return(p) ==
    /\ sess[p].pc = "done"
    /\ sess' = [sess EXCEPT ![p] = IdleSess]
    /\ UNCHANGED <<documents, document_versions, metadata_fields, document_types,
                   document_type_metadata, uploads, uuid_ctr, vq, categories,
                   category_hierarchy>>

(* ---- DocumentRepository.update, called by DocumentService.update_document ---- *)

BeginUpdate(p) ==
    /\ sess[p].pc = "idle"
    /\ \E d \in DocIds, t \in Titles, c \in Contents :
         /\ Cardinality(versions(d))
              + Cardinality({q \in Sessions : sess[q].op = "update"
                                              /\ sess[q].document_id = d}) < MaxVersions
         /\ sess' = [sess EXCEPT ![p] = [IdleSess EXCEPT !.op = "update",
                        !.pc = "get_by_id", !.document_id = d, !.title = t, !.content = c]]
    /\ UNCHANGED <<documents, document_versions, metadata_fields, document_types,
                   document_type_metadata, uploads, uuid_ctr, vq, categories,
                   category_hierarchy>>

UpdateGetById(p) ==
    /\ sess[p].op = "update" /\ sess[p].pc = "get_by_id"
    /\ sess' = [sess EXCEPT ![p] =
                  IF sess[p].document_id \in DOMAIN documents
                  THEN [sess[p] EXCEPT !.pc = "archive",
                                       !.db_document = documents[sess[p].document_id]]
                  ELSE Finish(p, Raise("HTTPException404"))]
    /\ UNCHANGED <<documents, document_versions, metadata_fields, document_types,
                   document_type_metadata, uploads, uuid_ctr, vq, categories,
                   category_hierarchy>>

\* a variant that numbers from the count itself, so from 0
archive_version_number_from_zero(loaded) == Cardinality(loaded)

\* len(db_document.versions) + 1 if db_document.versions else 1
archive_version_number(loaded) ==
    IF loaded # {} THEN Cardinality(loaded) + 1 ELSE 1

\* a variant that builds the DocumentVersion after the setattr loop has run
archive_version_after_setattr(document_id, version_number, db_document, title, content) ==
    [document_id |-> document_id, version_number |-> version_number,
     title |-> title, content |-> content,
     file_name |-> db_document.file_name, file_path |-> db_document.file_path,
     file_size |-> db_document.file_size]

\* the DocumentVersion built from the loaded document, before the setattr loop
archive_version(document_id, version_number, db_document, title, content) ==
    [document_id |-> document_id, version_number |-> version_number,
     title |-> db_document.title, content |-> db_document.content,
     file_name |-> db_document.file_name, file_path |-> db_document.file_path,
     file_size |-> db_document.file_size]

UpdateArchive(p) ==
    /\ sess[p].op = "update" /\ sess[p].pc = "archive"
    /\ sess' = [sess EXCEPT ![p].pc = "commit",
                            ![p].version_number =
                                archive_version_number(versions(sess[p].document_id))]
    /\ UNCHANGED <<documents, document_versions, metadata_fields, document_types,
                   document_type_metadata, uploads, uuid_ctr, vq, categories,
                   category_hierarchy>>

\* except: db.rollback(); raise
UpdateRollback(p, e) ==
    /\ sess' = [sess EXCEPT ![p] = Finish(p, e)]
    /\ UNCHANGED <<documents, document_versions>>

UpdateCommit(p) ==
    /\ sess[p].op = "update" /\ sess[p].pc = "commit"
    /\ LET d       == sess[p].document_id
           loaded  == sess[p].db_document
           changed == sess[p].title # loaded.title \/ sess[p].content # loaded.content
       IN  \E db_ok \in BOOLEAN :
             IF ~db_ok THEN UpdateRollback(p, Raise("SQLAlchemyError"))
             ELSE IF changed /\ d \notin DOMAIN documents
                  THEN UpdateRollback(p, Raise("StaleDataError"))
             ELSE /\ document_versions' =
                        Insert(document_versions,
                               archive_version(d, sess[p].version_number, loaded,
                                               sess[p].title, sess[p].content))
                  /\ documents' =
                        IF d \in DOMAIN documents
                        THEN [documents EXCEPT
                                ![d].title = FlushColumn(@, loaded.title, sess[p].title),
                                ![d].content = FlushColumn(@, loaded.content, sess[p].content)]
                        ELSE documents
                  /\ sess' = [sess EXCEPT ![p].pc = "refresh", ![p].committed = TRUE]
    /\ UNCHANGED <<metadata_fields, document_types, document_type_metadata,
                   uploads, uuid_ctr, vq, categories, category_hierarchy>>

\* db.refresh(db_document) after the commit, still inside the try block: it
\* raises when the SELECT fails or finds no row, and the rollback that follows
\* has nothing left to undo
UpdateRefresh(p) ==
    /\ sess[p].op = "update" /\ sess[p].pc = "refresh"
    /\ \E db_ok \in BOOLEAN :
         sess' = [sess EXCEPT ![p] =
                    IF ~db_ok THEN Finish(p, Raise("SQLAlchemyError"))
                    ELSE IF sess[p].document_id \in DOMAIN documents
                    THEN Finish(p, NoErr)
                    ELSE Finish(p, Raise("InvalidRequestError"))]
    /\ UNCHANGED <<documents, document_versions, metadata_fields, document_types,
                   document_type_metadata, uploads, uuid_ctr, vq, categories,
                   category_hierarchy>>

(* ---- DocumentRepository.delete, called by DocumentService.delete_document ---- *)

BeginDelete(p) ==
    /\ sess[p].pc = "idle"
    /\ \E d \in DocIds :
         sess' = [sess EXCEPT ![p] = [IdleSess EXCEPT !.op = "delete",
                     !.pc = "get_by_id", !.document_id = d]]
    /\ UNCHANGED <<documents, document_versions, metadata_fields, document_types,
                   document_type_metadata, uploads, uuid_ctr, vq, categories,
                   category_hierarchy>>

DeleteGetById(p) ==
    /\ sess[p].op = "delete" /\ sess[p].pc = "get_by_id"
    /\ sess' = [sess EXCEPT ![p] =
                  IF sess[p].document_id \in DOMAIN documents
                  THEN [sess[p] EXCEPT !.pc = "commit"]
                  ELSE Finish(p, Raise("HTTPException404"))]
    /\ UNCHANGED <<documents, document_versions, metadata_fields, document_types,
                   document_type_metadata, uploads, uuid_ctr, vq, categories,
                   category_hierarchy>>

\* the version rows removed together with their document: the models declare
\* no rule, the specification's delete policy (cascade) is taken
cascade(document_id) == versions(document_id)

DeleteCommit(p) ==
    /\ sess[p].op = "delete" /\ sess[p].pc = "commit"
    /\ \E db_ok \in BOOLEAN :
         IF ~db_ok
         THEN /\ sess' = [sess EXCEPT ![p] = Finish(p, Raise("SQLAlchemyError"))]
              /\ UNCHANGED <<documents, document_versions>>
         ELSE /\ documents' = Remove(documents, {sess[p].document_id})
              /\ document_versions' =
                    Remove(document_versions, cascade(sess[p].document_id))
              /\ sess' = [sess EXCEPT ![p] =
                            [Finish(p, NoErr) EXCEPT !.committed = TRUE]]
    /\ UNCHANGED <<metadata_fields, document_types, document_type_metadata,
                   uploads, uuid_ctr, vq, categories, category_hierarchy>>

(* ---- DocumentService.create_document over LocalFileStorage ---- *)

\* a variant that names the stored file after the uploaded file alone
storage_path_from_filename(uuid, file) == [uuid |-> 0, ext |-> file.ext]

\* f"{file_id}{file_extension}" joined to the storage base path
storage_path(uuid, file) == [uuid |-> uuid, ext |-> file.ext]

\* DocumentRepository.create with DocumentCreate(title=title, content="")
new_document(title) ==
    [title |-> title, content |-> "", file_path |-> NullPath, file_name |-> NullName,
     file_size |-> NullSize, document_type_id |-> 0, metadata_values |-> NullJson]

\* a create request, while fewer than n files have been or are about to be saved
BeginCreateWithin(p, n) ==
    /\ sess[p].pc = "idle"
    /\ uuid_ctr + Cardinality({q \in Sessions : sess[q].op = "create"
                                  /\ sess[q].pc \in {"validate", "save_file"}}) < n
    /\ \E t \in CreateTitles, f \in Files, a \in CreateArgs :
         sess' = [sess EXCEPT ![p] = [IdleSess EXCEPT !.op = "create",
                     !.pc = "validate", !.title = t, !.file = f,
                     !.document_type_id = a[1], !.metadata_values = a[2]]]
    /\ UNCHANGED <<documents, document_versions, metadata_fields, document_types,
                   document_type_metadata, uploads, uuid_ctr, vq, categories,
                   category_hierarchy>>

BeginCreate(p) == BeginCreateWithin(p, MaxFiles)

\* a variant that saves the file first and validates afterwards
CreateValidate_after_save(p) ==
    /\ sess[p].op = "create" /\ sess[p].pc = "validate"
    /\ uuid_ctr' = uuid_ctr + 1
    /\ LET path == storage_path(uuid_ctr + 1, sess[p].file)
           r == validate_document_metadata(sess[p].document_type_id,
                                           sess[p].metadata_values)
       IN  /\ uploads' = uploads \cup {[path |-> path, state |-> "complete"]}
           /\ sess' = [sess EXCEPT ![p] =
                         IF sess[p].document_type_id # 0 /\ ~r.ok
                         THEN Finish(p, r.err)
                         ELSE [sess[p] EXCEPT !.pc = "repo_create", !.file_path = path]]
    /\ UNCHANGED <<documents, document_versions, metadata_fields, document_types,
                   document_type_metadata, vq, categories, category_hierarchy>>

\* if document_type_id: self.metadata_service.validate_document_metadata(...)
CreateValidate(p) ==
    /\ sess[p].op = "create" /\ sess[p].pc = "validate"
    /\ LET r == validate_document_metadata(sess[p].document_type_id,
                                           sess[p].metadata_values)
       IN  sess' = [sess EXCEPT ![p] =
                      IF sess[p].document_type_id # 0 /\ ~r.ok
                      THEN Finish(p, r.err)
                      ELSE [sess[p] EXCEPT !.pc = "save_file"]]
    /\ UNCHANGED <<documents, document_versions, metadata_fields, document_types,
                   document_type_metadata, uploads, uuid_ctr, vq, categories,
                   category_hierarchy>>

\* a variant that creates the record first and saves the file afterwards
CreateSaveFile_record_first(p) ==
    /\ sess[p].op = "create" /\ sess[p].pc = "save_file"
    /\ uuid_ctr' = uuid_ctr + 1
    /\ documents' = Insert(documents, new_document(sess[p].title))
    /\ LET path == storage_path(uuid_ctr + 1, sess[p].file)
       IN  \E outcome \in {"saved", "open_fails"} :
             CASE outcome = "saved" ->
                    /\ uploads' = uploads \cup {[path |-> path, state |-> "complete"]}
                    /\ sess' = [sess EXCEPT ![p].pc = "set_fields",
                                            ![p].file_path = path,
                                            ![p].document_id = NextId(documents),
                                            ![p].db_document = new_document(sess[p].title),
                                            ![p].committed = TRUE]
               [] outcome = "open_fails" ->
                    /\ uploads' = uploads
                    /\ sess' = [sess EXCEPT ![p] = Finish(p, Raise("OSError"))]
    /\ UNCHANGED <<document_versions, metadata_fields, document_types,
                   document_type_metadata, vq, categories, category_hierarchy>>

\* LocalFileStorage.save_file: open(file_path, 'wb'), read, write
CreateSaveFile(p) ==
    /\ sess[p].op = "create" /\ sess[p].pc = "save_file"
    /\ uuid_ctr' = uuid_ctr + 1
    /\ LET path == storage_path(uuid_ctr + 1, sess[p].file)
       IN  \E outcome \in {"saved", "open_fails", "write_fails"} :
             CASE outcome = "saved" ->
                    /\ uploads' = uploads \cup {[path |-> path, state |-> "complete"]}
                    /\ sess' = [sess EXCEPT ![p].pc = "repo_create",
                                            ![p].file_path = path]
               [] outcome = "open_fails" ->
                    /\ uploads' = uploads
                    /\ sess' = [sess EXCEPT ![p] = Finish(p, Raise("OSError"))]
               [] outcome = "write_fails" ->
                    /\ uploads' = uploads \cup {[path |-> path, state |-> "partial"]}
                    /\ sess' = [sess EXCEPT ![p] = Finish(p, Raise("OSError"))]
    /\ UNCHANGED <<documents, document_versions, metadata_fields, document_types,
                   document_type_metadata, vq, categories, category_hierarchy>>

CreateRepoCreate(p) ==
    /\ sess[p].op = "create" /\ sess[p].pc = "repo_create"
    /\ \E outcome \in {"created", "commit_fails", "refresh_fails"} :
         CASE outcome = "commit_fails" ->
                /\ sess' = [sess EXCEPT ![p] = Finish(p, Raise("SQLAlchemyError"))]
                /\ UNCHANGED documents
           [] outcome = "refresh_fails" ->
                /\ documents' = Insert(documents, new_document(sess[p].title))
                /\ sess' = [sess EXCEPT ![p] =
                              [Finish(p, Raise("SQLAlchemyError")) EXCEPT
                                  !.document_id = NextId(documents),
                                  !.committed = TRUE]]
           [] outcome = "created" ->
                /\ documents' = Insert(documents, new_document(sess[p].title))
                /\ sess' = [sess EXCEPT ![p].pc = "set_fields",
                                        ![p].document_id = NextId(documents),
                                        ![p].db_document = new_document(sess[p].title),
                                        ![p].committed = TRUE]
    /\ UNCHANGED <<document_versions, metadata_fields, document_types,
                   document_type_metadata, uploads, uuid_ctr, vq, categories,
                   category_hierarchy>>

\* "Update additional fields", self.db.commit(), self.db.refresh(document)
CreateSetFields(p) ==
    /\ sess[p].op = "create" /\ sess[p].pc = "set_fields"
    /\ LET d      == sess[p].document_id
           loaded == sess[p].db_document
       IN  \E db_ok \in BOOLEAN, refresh_ok \in BOOLEAN :
             IF ~db_ok
             THEN /\ sess' = [sess EXCEPT ![p] = Finish(p, Raise("SQLAlchemyError"))]
                  /\ UNCHANGED documents
             ELSE IF d \notin DOMAIN documents
             THEN /\ sess' = [sess EXCEPT ![p] = Finish(p, Raise("StaleDataError"))]
                  /\ UNCHANGED documents
             ELSE /\ documents' = [documents EXCEPT
                        ![d].file_path = FlushColumn(@, loaded.file_path, sess[p].file_path),
                        ![d].file_name = FlushColumn(@, loaded.file_name, sess[p].file.name),
                        ![d].file_size = FlushColumn(@, loaded.file_size, sess[p].file.size),
                        ![d].document_type_id =
                            FlushColumn(@, loaded.document_type_id, sess[p].document_type_id),
                        ![d].metadata_values =
                            FlushColumn(@, loaded.metadata_values,
                                        Json(sess[p].metadata_values))]
                  /\ sess' = [sess EXCEPT ![p] =
                                IF refresh_ok THEN Finish(p, NoErr)
                                ELSE Finish(p, Raise("SQLAlchemyError"))]
    /\ UNCHANGED <<document_versions, metadata_fields, document_types,
                   document_type_metadata, uploads, uuid_ctr, vq, categories,
                   category_hierarchy>>

(* ---- DocumentService.get_document ---- *)

BeginGet(p) ==
    /\ sess[p].pc = "idle"
    /\ \E d \in DocIds :
         sess' = [sess EXCEPT ![p] = [IdleSess EXCEPT !.op = "get",
                     !.pc = "get_by_id", !.document_id = d]]
    /\ UNCHANGED <<documents, document_versions, metadata_fields, document_types,
                   document_type_metadata, uploads, uuid_ctr, vq, categories,
                   category_hierarchy>>

\* document = self.document_repo.get_by_id(...); if not document: raise 404
GetDocument(p) ==
    /\ sess[p].op = "get" /\ sess[p].pc = "get_by_id"
    /\ sess' = [sess EXCEPT ![p] =
                  IF sess[p].document_id \in DOMAIN documents
                  THEN [Finish(p, NoErr) EXCEPT
                           !.db_document = documents[sess[p].document_id]]
                  ELSE Finish(p, Raise("HTTPException404"))]
    /\ UNCHANGED <<documents, document_versions, metadata_fields, document_types,
                   document_type_metadata, uploads, uuid_ctr, vq, categories,
                   category_hierarchy>>

(* ---- DocumentService.update_document_metadata ---- *)

\* (document_type_id, metadata_values) of an update_metadata request; 0 is "no type"
UpdateMetadataArgs ==
    {<<1, <<[k |-> "confidential", v |-> JBool(FALSE)]>> >>,
     <<1, <<>> >>,
     <<2, <<[k |-> "n2", v |-> JStr(<<"a">>)]>> >>,
     <<0, <<[k |-> "zz", v |-> JStr(<<"a">>)]>> >>}

BeginUpdateMetadata(p) ==
    /\ sess[p].pc = "idle"
    /\ \E d \in DocIds, a \in UpdateMetadataArgs :
         sess' = [sess EXCEPT ![p] = [IdleSess EXCEPT !.op = "update_metadata",
                     !.pc = "get_by_id", !.document_id = d,
                     !.document_type_id = a[1], !.metadata_values = a[2]]]
    /\ UNCHANGED <<documents, document_versions, metadata_fields, document_types,
                   document_type_metadata, uploads, uuid_ctr, vq, categories,
                   category_hierarchy>>

\* a variant without the check for a missing document
UpdateMetadataGetById_unchecked(p) ==
    /\ sess[p].op = "update_metadata" /\ sess[p].pc = "get_by_id"
    /\ sess' = [sess EXCEPT ![p] =
                  [sess[p] EXCEPT !.pc = "validate",
                      !.db_document = IF sess[p].document_id \in DOMAIN documents
                                      THEN documents[sess[p].document_id]
                                      ELSE NoRow]]
    /\ UNCHANGED <<documents, document_versions, metadata_fields, document_types,
                   document_type_metadata, uploads, uuid_ctr, vq, categories,
                   category_hierarchy>>

\* document = self.document_repo.get_by_id(...); if not document: raise 404
UpdateMetadataGetById(p) ==
    /\ sess[p].op = "update_metadata" /\ sess[p].pc = "get_by_id"
    /\ sess' = [sess EXCEPT ![p] =
                  IF sess[p].document_id \in DOMAIN documents
                  THEN [sess[p] EXCEPT !.pc = "validate",
                                       !.db_document = documents[sess[p].document_id]]
                  ELSE Finish(p, Raise("HTTPException404"))]
    /\ UNCHANGED <<documents, document_versions, metadata_fields, document_types,
                   document_type_metadata, uploads, uuid_ctr, vq, categories,
                   category_hierarchy>>

\* if document_type_id: validate_document_metadata(document_type_id, metadata_values)
UpdateMetadataValidate(p) ==
    /\ sess[p].op = "update_metadata" /\ sess[p].pc = "validate"
    /\ LET r == validate_document_metadata(sess[p].document_type_id,
                                           sess[p].metadata_values)
       IN  sess' = [sess EXCEPT ![p] =
                      IF sess[p].document_type_id # 0 /\ ~r.ok
                      THEN Finish(p, r.err)
                      ELSE [sess[p] EXCEPT !.pc = "commit"]]
    /\ UNCHANGED <<documents, document_versions, metadata_fields, document_types,
                   document_type_metadata, uploads, uuid_ctr, vq, categories,
                   category_hierarchy>>

\* a variant that archives a DocumentVersion as DocumentRepository.update does
UpdateMetadataCommit_archiving(p) ==
    /\ sess[p].op = "update_metadata" /\ sess[p].pc = "commit"
    /\ LET d        == sess[p].document_id
           loaded   == sess[p].db_document
           new_type == IF sess[p].document_type_id # 0
                       THEN sess[p].document_type_id ELSE loaded.document_type_id
           new_meta == Json(sess[p].metadata_values)
           changed  == new_type # loaded.document_type_id
                       \/ new_meta # loaded.metadata_values
       IN  \E db_ok \in BOOLEAN, refresh_ok \in BOOLEAN :
             IF ~db_ok
             THEN /\ sess' = [sess EXCEPT ![p] = Finish(p, Raise("SQLAlchemyError"))]
                  /\ UNCHANGED <<documents, document_versions>>
             ELSE IF d \notin DOMAIN documents
             THEN /\ sess' = [sess EXCEPT ![p] =
                                Finish(p, IF changed THEN Raise("StaleDataError")
                                          ELSE Raise("InvalidRequestError"))]
                  /\ UNCHANGED <<documents, document_versions>>
             ELSE /\ document_versions' =
                        Insert(document_versions,
                               archive_version(d, archive_version_number(versions(d)),
                                               loaded, loaded.title, loaded.content))
                  /\ documents' = [documents EXCEPT
                        ![d].document_type_id =
                            FlushColumn(@, loaded.document_type_id, new_type),
                        ![d].metadata_values =
                            FlushColumn(@, loaded.metadata_values, new_meta)]
                  /\ sess' = [sess EXCEPT ![p] =
                                [(IF refresh_ok THEN Finish(p, NoErr)
                                  ELSE Finish(p, Raise("SQLAlchemyError")))
                                 EXCEPT !.committed = TRUE]]
    /\ UNCHANGED <<metadata_fields, document_types,
                   document_type_metadata, uploads, uuid_ctr, vq, categories,
                   category_hierarchy>>

\* document.document_type_id = ...; document.metadata_values = ...;
\* self.db.commit(); self.db.refresh(document)
UpdateMetadataCommit(p) ==
    /\ sess[p].op = "update_metadata" /\ sess[p].pc = "commit"
    /\ LET d        == sess[p].document_id
           loaded   == sess[p].db_document
           new_type == IF sess[p].document_type_id # 0
                       THEN sess[p].document_type_id ELSE loaded.document_type_id
           new_meta == Json(sess[p].metadata_values)
           changed  == new_type # loaded.document_type_id
                       \/ new_meta # loaded.metadata_values
       IN  \E db_ok \in BOOLEAN, refresh_ok \in BOOLEAN :
             IF ~db_ok
             THEN /\ sess' = [sess EXCEPT ![p] = Finish(p, Raise("SQLAlchemyError"))]
                  /\ UNCHANGED documents
             ELSE IF d \notin DOMAIN documents
             THEN /\ sess' = [sess EXCEPT ![p] =
                                Finish(p, IF changed THEN Raise("StaleDataError")
                                          ELSE Raise("InvalidRequestError"))]
                  /\ UNCHANGED documents
             ELSE /\ documents' = [documents EXCEPT
                        ![d].document_type_id =
                            FlushColumn(@, loaded.document_type_id, new_type),
                        ![d].metadata_values =
                            FlushColumn(@, loaded.metadata_values, new_meta)]
                  /\ sess' = [sess EXCEPT ![p] =
                                [(IF refresh_ok THEN Finish(p, NoErr)
                                  ELSE Finish(p, Raise("SQLAlchemyError")))
                                 EXCEPT !.committed = TRUE]]
    /\ UNCHANGED <<document_versions, metadata_fields, document_types,
                   document_type_metadata, uploads, uuid_ctr, vq, categories,
                   category_hierarchy>>

----------------------------------------------------------------------------
(* The registry handlers: MetadataService over MetadataRepository and      *)
(* DocumentTypeRepository                                                  *)

FieldNames == {"confidential", "n2"}
TypeNames  == {"Policy", "Memo"}
TypeIds    == {1, 2}
FieldIds   == {1, 2}

\* MetadataField(**field_data.dict())
FieldOfName(name) == IF name = "confidential" THEN ConfidentialField ELSE Field2Config

\* the field_associations / metadata_fields lists of the requests
AssociationLists ==
    {<<>>,
     <<[metadata_field_id |-> 1, is_required |-> TRUE]>>,
     <<[metadata_field_id |-> 1, is_required |-> TRUE],
       [metadata_field_id |-> 2, is_required |-> FALSE]>>,
     <<[metadata_field_id |-> 2, is_required |-> FALSE],
       [metadata_field_id |-> 2, is_required |-> FALSE]>>}

ValueError(tag) == [Raise("ValueError") EXCEPT !.tag = tag]

\* query(MetadataField).filter(MetadataField.name == name).first()
get_metadata_field_by_name(name) ==
    {f \in DOMAIN metadata_fields : metadata_fields[f].name = name}

\* query(DocumentType).filter(DocumentType.name == name).first()
get_document_type_by_name(name) ==
    {t \in DOMAIN document_types : document_types[t].name = name}

\* a variant of the tables whose name column is not declared unique
unique_not_declared(table, name) == {}

\* name = Column(String(255), nullable=False, unique=True): the rows that an
\* INSERT of the name would collide with
unique(table, name) == {i \in DOMAIN table : table[i].name = name}

\* PRIMARY KEY (document_type_id, metadata_field_id) of document_type_metadata
primary_key(type_id, field_id) ==
    {a \in document_type_metadata :
        a.document_type_id = type_id /\ a.metadata_field_id = field_id}

\* document_type_metadata.insert().values(...)
insert_values(type_id, field_id, is_required) ==
    document_type_metadata \cup
        {[document_type_id |-> type_id, metadata_field_id |-> field_id,
          is_required |-> is_required]}

\* a variant whose where clause compares the document type only
delete_where_type_only(type_id, field_id) ==
    {a \in document_type_metadata : a.document_type_id # type_id}

\* document_type_metadata.delete().where(and_(type_id matches, field_id matches))
delete_where(type_id, field_id) ==
    {a \in document_type_metadata :
        ~(a.document_type_id = type_id /\ a.metadata_field_id = field_id)}

\* delete(document_type_metadata).where(type_id matches)
clear_metadata_fields(type_id) ==
    {a \in document_type_metadata : a.document_type_id # type_id}

RegistryUnchanged ==
    UNCHANGED <<metadata_fields, document_types, document_type_metadata>>

(* ---- MetadataService.create_metadata_field ---- *)

BeginCreateField(p) ==
    /\ sess[p].pc = "idle"
    /\ \E n \in FieldNames :
         sess' = [sess EXCEPT ![p] = [IdleSess EXCEPT !.op = "create_metadata_field",
                     !.pc = "get_by_name", !.name = n]]
    /\ RegistryUnchanged
    /\ UNCHANGED <<documents, document_versions, uploads, uuid_ctr, vq,
                   categories, category_hierarchy>>

\* if get_metadata_field_by_name(name): raise ValueError(... already exists)
CreateFieldGetByName(p) ==
    /\ sess[p].op = "create_metadata_field" /\ sess[p].pc = "get_by_name"
    /\ sess' = [sess EXCEPT ![p] =
                  IF get_metadata_field_by_name(sess[p].name) # {}
                  THEN Finish(p, ValueError("already exists"))
                  ELSE [sess[p] EXCEPT !.pc = "commit"]]
    /\ RegistryUnchanged
    /\ UNCHANGED <<documents, document_versions, uploads, uuid_ctr, vq,
                   categories, category_hierarchy>>

\* db.add(metadata_field); db.commit(); db.refresh(metadata_field)
\* name is declared unique=True: the INSERT of a second row of the name fails
CreateFieldCommit(p) ==
    /\ sess[p].op = "create_metadata_field" /\ sess[p].pc = "commit"
    /\ \E db_ok \in BOOLEAN :
         IF ~db_ok
         THEN /\ sess' = [sess EXCEPT ![p] = Finish(p, Raise("SQLAlchemyError"))]
              /\ UNCHANGED metadata_fields
         ELSE IF unique(metadata_fields, sess[p].name) # {}
         THEN /\ sess' = [sess EXCEPT ![p] = Finish(p, Raise("IntegrityError"))]
              /\ UNCHANGED metadata_fields
         ELSE /\ metadata_fields' = Insert(metadata_fields, FieldOfName(sess[p].name))
              /\ sess' = [sess EXCEPT ![p] =
                            [Finish(p, NoErr) EXCEPT !.committed = TRUE,
                                !.field_id = NextId(metadata_fields)]]
    /\ UNCHANGED <<document_types, document_type_metadata>>
    /\ UNCHANGED <<documents, document_versions, uploads, uuid_ctr, vq,
                   categories, category_hierarchy>>

(* ---- DocumentTypeRepository.associate_metadata_field ---- *)

\* the outcome of execute(insert) and commit: the table afterwards and the
\* error raised, IntegrityError when the pair is already a row of the table
associate_metadata_field(type_id, field_id, is_required, db_ok) ==
    IF ~db_ok
    THEN [table |-> document_type_metadata, err |-> Raise("SQLAlchemyError")]
    ELSE IF primary_key(type_id, field_id) # {}
    THEN [table |-> document_type_metadata, err |-> Raise("IntegrityError")]
    ELSE [table |-> insert_values(type_id, field_id, is_required), err |-> NoErr]

BeginAssociate(p) ==
    /\ sess[p].pc = "idle"
    /\ \E t \in TypeIds, f \in FieldIds :
         sess' = [sess EXCEPT ![p] = [IdleSess EXCEPT !.op = "associate_metadata_field",
                     !.pc = "execute", !.document_type_id = t, !.field_id = f,
                     !.is_required = (f = 1)]]
    /\ RegistryUnchanged
    /\ UNCHANGED <<documents, document_versions, uploads, uuid_ctr, vq,
                   categories, category_hierarchy>>

AssociateExecute(p) ==
    /\ sess[p].op = "associate_metadata_field" /\ sess[p].pc = "execute"
    /\ \E db_ok \in BOOLEAN :
         LET r == associate_metadata_field(sess[p].document_type_id, sess[p].field_id,
                                           sess[p].is_required, db_ok)
         IN  /\ document_type_metadata' = r.table
             /\ sess' = [sess EXCEPT ![p] =
                           [Finish(p, r.err) EXCEPT !.committed = (r.err = NoErr)]]
    /\ UNCHANGED <<metadata_fields, document_types>>
    /\ UNCHANGED <<documents, document_versions, uploads, uuid_ctr, vq,
                   categories, category_hierarchy>>

(* ---- DocumentTypeRepository.dissociate_metadata_field ---- *)

\* the table after execute(delete ... where) and commit
dissociate_metadata_field(type_id, field_id, db_ok) ==
    IF ~db_ok
    THEN [table |-> document_type_metadata, err |-> Raise("SQLAlchemyError")]
    ELSE [table |-> delete_where(type_id, field_id), err |-> NoErr]

BeginDissociate(p) ==
    /\ sess[p].pc = "idle"
    /\ \E t \in TypeIds, f \in FieldIds :
         sess' = [sess EXCEPT ![p] = [IdleSess EXCEPT !.op = "dissociate_metadata_field",
                     !.pc = "execute", !.document_type_id = t, !.field_id = f]]
    /\ RegistryUnchanged
    /\ UNCHANGED <<documents, document_versions, uploads, uuid_ctr, vq,
                   categories, category_hierarchy>>

DissociateExecute(p) ==
    /\ sess[p].op = "dissociate_metadata_field" /\ sess[p].pc = "execute"
    /\ \E db_ok \in BOOLEAN :
         LET r == dissociate_metadata_field(sess[p].document_type_id,
                                            sess[p].field_id, db_ok)
         IN  /\ document_type_metadata' = r.table
             /\ sess' = [sess EXCEPT ![p] =
                           [Finish(p, r.err) EXCEPT !.committed = (r.err = NoErr)]]
    /\ UNCHANGED <<metadata_fields, document_types>>
    /\ UNCHANGED <<documents, document_versions, uploads, uuid_ctr, vq,
                   categories, category_hierarchy>>

(* ---- MetadataService.create_document_type ---- *)

BeginCreateType(p) ==
    /\ sess[p].pc = "idle"
    /\ \E n \in TypeNames, l \in AssociationLists :
         sess' = [sess EXCEPT ![p] = [IdleSess EXCEPT !.op = "create_document_type",
                     !.pc = "get_by_name", !.name = n, !.field_associations = l]]
    /\ RegistryUnchanged
    /\ UNCHANGED <<documents, document_versions, uploads, uuid_ctr, vq,
                   categories, category_hierarchy>>

\* if get_document_type_by_name(name): raise ValueError(... already exists)
CreateTypeGetByName(p) ==
    /\ sess[p].op = "create_document_type" /\ sess[p].pc = "get_by_name"
    /\ sess' = [sess EXCEPT ![p] =
                  IF get_document_type_by_name(sess[p].name) # {}
                  THEN Finish(p, ValueError("already exists"))
                  ELSE [sess[p] EXCEPT !.pc = "commit"]]
    /\ RegistryUnchanged
    /\ UNCHANGED <<documents, document_versions, uploads, uuid_ctr, vq,
                   categories, category_hierarchy>>

\* db.add(document_type); db.commit(); db.refresh(document_type)
\* name is declared unique=True: the INSERT of a second row of the name fails
CreateTypeCommit(p) ==
    /\ sess[p].op = "create_document_type" /\ sess[p].pc = "commit"
    /\ \E db_ok \in BOOLEAN :
         IF ~db_ok
         THEN /\ sess' = [sess EXCEPT ![p] = Finish(p, Raise("SQLAlchemyError"))]
              /\ UNCHANGED document_types
         ELSE IF unique(document_types, sess[p].name) # {}
         THEN /\ sess' = [sess EXCEPT ![p] = Finish(p, Raise("IntegrityError"))]
              /\ UNCHANGED document_types
         ELSE /\ document_types' = Insert(document_types, [name |-> sess[p].name])
              /\ sess' = [sess EXCEPT ![p].pc = "associate", ![p].committed = TRUE,
                                      ![p].next_assoc = 1,
                                      ![p].document_type_id = NextId(document_types)]
    /\ UNCHANGED <<metadata_fields, document_type_metadata>>
    /\ UNCHANGED <<documents, document_versions, uploads, uuid_ctr, vq,
                   categories, category_hierarchy>>

\* one round of `for assoc in ...: associate_metadata_field(type id,
\* assoc.metadata_field_id, assoc.is_required)`, or the return after the last
AssociateNext(p) ==
    IF sess[p].next_assoc > Len(sess[p].field_associations)
    THEN /\ sess' = [sess EXCEPT ![p] = [Finish(p, NoErr) EXCEPT !.next_assoc = 0]]
         /\ UNCHANGED document_type_metadata
    ELSE \E db_ok \in BOOLEAN :
           LET assoc == sess[p].field_associations[sess[p].next_assoc]
               r == associate_metadata_field(sess[p].document_type_id,
                                             assoc.metadata_field_id,
                                             assoc.is_required, db_ok)
           IN  /\ document_type_metadata' = r.table
               /\ sess' = [sess EXCEPT ![p] =
                             IF r.err = NoErr
                             THEN [sess[p] EXCEPT !.next_assoc = @ + 1]
                             ELSE [Finish(p, r.err) EXCEPT !.next_assoc = 0]]

CreateTypeAssociate(p) ==
    /\ sess[p].op = "create_document_type" /\ sess[p].pc = "associate"
    /\ AssociateNext(p)
    /\ UNCHANGED <<metadata_fields, document_types>>
    /\ UNCHANGED <<documents, document_versions, uploads, uuid_ctr, vq,
                   categories, category_hierarchy>>

(* ---- MetadataService.update_document_type_fields ---- *)

BeginUpdateTypeFields(p) ==
    /\ sess[p].pc = "idle"
    /\ \E t \in TypeIds, l \in AssociationLists :
         sess' = [sess EXCEPT ![p] = [IdleSess EXCEPT !.op = "update_document_type_fields",
                     !.pc = "get_document_type", !.document_type_id = t,
                     !.field_associations = l]]
    /\ RegistryUnchanged
    /\ UNCHANGED <<documents, document_versions, uploads, uuid_ctr, vq,
                   categories, category_hierarchy>>

\* doc_type = get_document_type(type_id); if not doc_type: raise ValueError
UpdateTypeFieldsGetType(p) ==
    /\ sess[p].op = "update_document_type_fields" /\ sess[p].pc = "get_document_type"
    /\ sess' = [sess EXCEPT ![p] =
                  IF sess[p].document_type_id \in DOMAIN document_types
                  THEN [sess[p] EXCEPT !.pc = "clear"]
                  ELSE Finish(p, ValueError("not found"))]
    /\ RegistryUnchanged
    /\ UNCHANGED <<documents, document_versions, uploads, uuid_ctr, vq,
                   categories, category_hierarchy>>

\* self.document_type_repo.clear_metadata_fields(type_id): execute; commit
UpdateTypeFieldsClear(p) ==
    /\ sess[p].op = "update_document_type_fields" /\ sess[p].pc = "clear"
    /\ \E db_ok \in BOOLEAN :
         IF ~db_ok
         THEN /\ sess' = [sess EXCEPT ![p] = Finish(p, Raise("SQLAlchemyError"))]
              /\ UNCHANGED document_type_metadata
         ELSE /\ document_type_metadata' = clear_metadata_fields(sess[p].document_type_id)
              /\ sess' = [sess EXCEPT ![p].pc = "associate", ![p].committed = TRUE,
                                      ![p].next_assoc = 1]
    /\ UNCHANGED <<metadata_fields, document_types>>
    /\ UNCHANGED <<documents, document_versions, uploads, uuid_ctr, vq,
                   categories, category_hierarchy>>

UpdateTypeFieldsAssociate(p) ==
    /\ sess[p].op = "update_document_type_fields" /\ sess[p].pc = "associate"
    /\ AssociateNext(p)
    /\ UNCHANGED <<metadata_fields, document_types>>
    /\ UNCHANGED <<documents, document_versions, uploads, uuid_ctr, vq,
                   categories, category_hierarchy>>

----------------------------------------------------------------------------
(* The storage backends: LocalFileStorage and S3Storage behind             *)
(* StorageInterface; `uploads` is the content of the configured backend    *)

Backends     == {"local", "s3"}
StorageNames == {[uuid |-> 1, ext |-> ".txt"], [uuid |-> 2, ext |-> ".txt"]}

\* os.path.exists(file_path); also what open(file_path, 'rb') and get_object find
exists(file_path) == \E u \in uploads : u.path = file_path

\* the storage without the file or object at file_path
removed(file_path) == {u \in uploads : u.path # file_path}

\* the storage after the file or object at file_path has been (re)written
written(file_path, state) ==
    removed(file_path) \cup {[path |-> file_path, state |-> state]}

\* the handles get_file resolves: open(file_path, 'rb') succeeds for every
\* file that exists, whatever was written to it
resolvable == {u.path : u \in uploads}

BeginSaveFile(p) ==
    /\ sess[p].pc = "idle"
    /\ \E b \in Backends, n \in StorageNames :
         sess' = [sess EXCEPT ![p] = [IdleSess EXCEPT !.op = "save_file",
                     !.pc = "save", !.backend = b, !.file_path = n]]
    /\ UNCHANGED <<documents, document_versions, metadata_fields, document_types,
                   document_type_metadata, uploads, uuid_ctr, vq, categories,
                   category_hierarchy>>

\* LocalFileStorage.save_file: aiofiles.open(file_path, 'wb') creates or
\* truncates the file, then file.read() and f.write(content); any exception
\* is logged and raised again
local_save_file(file_path, outcome) ==
    CASE outcome = "saved"       -> [storage |-> written(file_path, "complete"),
                                     err |-> NoErr]
      [] outcome = "open_fails"  -> [storage |-> uploads, err |-> Raise("OSError")]
      [] outcome = "write_fails" -> [storage |-> written(file_path, "partial"),
                                     err |-> Raise("OSError")]

\* S3Storage.save_file: file.read(), then one put_object; any exception is
\* logged and raised again
s3_save_file(file_path, outcome) ==
    CASE outcome = "saved" -> [storage |-> written(file_path, "complete"), err |-> NoErr]
      [] OTHER             -> [storage |-> uploads, err |-> Raise("ClientError")]

SaveFile(p) ==
    /\ sess[p].op = "save_file" /\ sess[p].pc = "save"
    /\ \E outcome \in {"saved", "open_fails", "write_fails"} :
         LET r == IF sess[p].backend = "local"
                  THEN local_save_file(sess[p].file_path, outcome)
                  ELSE s3_save_file(sess[p].file_path, outcome)
         IN  /\ uploads' = r.storage
             /\ sess' = [sess EXCEPT ![p] = [Finish(p, r.err) EXCEPT
                                                !.result = (r.err = NoErr)]]
    /\ UNCHANGED <<documents, document_versions, metadata_fields, document_types,
                   document_type_metadata, uuid_ctr, vq, categories, category_hierarchy>>

BeginDeleteFile(p) ==
    /\ sess[p].pc = "idle"
    /\ \E b \in Backends, n \in StorageNames :
         sess' = [sess EXCEPT ![p] = [IdleSess EXCEPT !.op = "delete_file",
                     !.pc = IF b = "local" THEN "exists" ELSE "delete_object",
                     !.backend = b, !.file_path = n]]
    /\ UNCHANGED <<documents, document_versions, metadata_fields, document_types,
                   document_type_metadata, uploads, uuid_ctr, vq, categories,
                   category_hierarchy>>

\* LocalFileStorage.delete_file: if os.path.exists(file_path): ... else
\* return False
LocalDeleteExists(p) ==
    /\ sess[p].op = "delete_file" /\ sess[p].pc = "exists"
    /\ sess' = [sess EXCEPT ![p] =
                  IF exists(sess[p].file_path)
                  THEN [sess[p] EXCEPT !.pc = "remove"]
                  ELSE [Finish(p, NoErr) EXCEPT !.result = FALSE]]
    /\ UNCHANGED <<documents, document_versions, metadata_fields, document_types,
                   document_type_metadata, uploads, uuid_ctr, vq, categories,
                   category_hierarchy>>

\* os.remove(file_path); return True -- except Exception: return False
local_remove(file_path, os_ok) ==
    IF os_ok /\ exists(file_path)
    THEN [storage |-> removed(file_path), result |-> TRUE]
    ELSE [storage |-> uploads, result |-> FALSE]

LocalDeleteRemove(p) ==
    /\ sess[p].op = "delete_file" /\ sess[p].pc = "remove"
    /\ \E os_ok \in BOOLEAN :
         LET r == local_remove(sess[p].file_path, os_ok)
         IN  /\ uploads' = r.storage
             /\ sess' = [sess EXCEPT ![p] = [Finish(p, NoErr) EXCEPT !.result = r.result]]
    /\ UNCHANGED <<documents, document_versions, metadata_fields, document_types,
                   document_type_metadata, uuid_ctr, vq, categories, category_hierarchy>>

\* a variant that asks for the object first and answers False when it is missing
s3_delete_file_head_first(file_path, s3_ok) ==
    IF s3_ok /\ exists(file_path)
    THEN [storage |-> removed(file_path), result |-> TRUE]
    ELSE [storage |-> uploads, result |-> FALSE]

\* S3Storage.delete_file: s3.delete_object(Bucket, Key); return True -- except
\* Exception: return False. DeleteObject succeeds for a key that has no object.
s3_delete_file(file_path, s3_ok) ==
    IF s3_ok
    THEN [storage |-> removed(file_path), result |-> TRUE]
    ELSE [storage |-> uploads, result |-> FALSE]

S3DeleteObject(p) ==
    /\ sess[p].op = "delete_file" /\ sess[p].pc = "delete_object"
    /\ \E s3_ok \in BOOLEAN :
         LET r == s3_delete_file(sess[p].file_path, s3_ok)
         IN  /\ uploads' = r.storage
             /\ sess' = [sess EXCEPT ![p] = [Finish(p, NoErr) EXCEPT !.result = r.result]]
    /\ UNCHANGED <<documents, document_versions, metadata_fields, document_types,
                   document_type_metadata, uuid_ctr, vq, categories, category_hierarchy>>

----------------------------------------------------------------------------
(* DocumentRepository.search_documents on SQLite *)

\* the characters of the titles, file names and filters of the search requests
chars(str) ==
    CASE str = ""    -> <<>>
      [] str = "Ab"  -> <<"A", "b">>
      [] str = "ac"  -> <<"a", "c">>
      [] str = "x.A" -> <<"x", ".", "A">>
      [] str = "a"   -> <<"a">>
      [] str = "B"   -> <<"B">>
      [] str = "_"   -> <<"_">>

\* lower() of SQLite, on the letters in use
lower_char(c) == CASE c = "A" -> "a" [] c = "B" -> "b" [] OTHER -> c
lower(str) == [i \in 1..Len(str) |-> lower_char(str[i])]

\* the LIKE operator: % matches any run of characters, _ any one character
RECURSIVE like(_, _)
like(text, pattern) ==
    IF pattern = <<>> THEN text = <<>>
    ELSE IF Head(pattern) = "%"
         THEN like(text, Tail(pattern)) \/ (text # <<>> /\ like(Tail(text), pattern))
    ELSE /\ text # <<>>
         /\ Head(pattern) = "_" \/ Head(pattern) = Head(text)
         /\ like(Tail(text), Tail(pattern))

\* column.ilike(f"%{filter}%"), rendered lower(column) LIKE lower(:param)
ilike(column, filter) ==
    like(lower(chars(column)), lower(<<"%">> \o chars(filter) \o <<"%">>))

\* an SQL value of SQLite: its storage class and its content
SqlNull       == [class |-> "null", v |-> <<>>]
SqlInteger(v) == [class |-> "integer", v |-> v]
SqlReal(v)    == [class |-> "real", v |-> v]
SqlText(v)    == [class |-> "text", v |-> v]

\* metadata_values ->> key: NULL for a missing key and for JSON null, INTEGER
\* 1 or 0 for true and false, INTEGER, REAL or TEXT for numbers and strings
json_extract(row, key) ==
    LET m == IF row.metadata_values.null THEN <<>> ELSE row.metadata_values.map
        hits == {i \in 1..Len(m) : m[i].k = key}
    IN  IF hits = {} THEN SqlNull
        ELSE LET value == m[CHOOSE i \in hits : TRUE].v
             IN  CASE value.t = "null"  -> SqlNull
                   [] value.t = "bool"  -> SqlInteger(IF value.s = <<"T">> THEN <<"1">>
                                                                           ELSE <<"0">>)
                   [] value.t = "int"   -> SqlInteger(value.s)
                   [] value.t = "float" -> SqlReal(value.s)
                   [] OTHER             -> SqlText(value.s)

\* the bound parameter of `== value`: Python bool and int bind as INTEGER,
\* float as REAL, str as TEXT
bind(value) ==
    CASE value.t = "bool"  -> SqlInteger(IF value.s = <<"T">> THEN <<"1">> ELSE <<"0">>)
      [] value.t = "int"   -> SqlInteger(value.s)
      [] value.t = "float" -> SqlReal(value.s)
      [] OTHER             -> SqlText(value.s)

\* `extracted == value` in the WHERE clause: `== None` is rendered IS NULL;
\* NULL equals nothing; values of different storage classes are unequal
sql_equals(extracted, value) ==
    IF value.t = "null" THEN extracted = SqlNull
    ELSE extracted # SqlNull /\ extracted = bind(value)

\* the filters of search_documents, applied to one row
search_filter(row, filename, title, metadata_filter) ==
    /\ filename # "" => row.file_name # NullName /\ ilike(row.file_name, filename)
    /\ title # "" => ilike(row.title, title)
    /\ \A i \in 1..Len(metadata_filter) :
          sql_equals(json_extract(row, metadata_filter[i].k), metadata_filter[i].v)

\* query.offset(skip).limit(limit).all(), rows in rowid order
search_documents(filename, title, metadata_filter, skip, limit) ==
    LET rows == SortedSeq({d \in DOMAIN documents :
                    search_filter(documents[d], filename, title, metadata_filter)})
    IN  SubSeq(rows, skip + 1,
               IF skip + limit < Len(rows) THEN skip + limit ELSE Len(rows))

SearchTitles    == {"Ab", "ac"}
SearchFileNames == {"x.A"}
SearchMaps ==
    {<<>>,
     <<[k |-> "n", v |-> JInt(<<"1">>)]>>,
     <<[k |-> "n", v |-> JStr(<<"1">>)]>>,
     <<[k |-> "n", v |-> JBool(TRUE)]>>,
     <<[k |-> "n", v |-> JNull]>>}
TitleFilters    == {"", "a", "B", "_"}
FileNameFilters == {"", "a"}

\* a document created without a document type, whose metadata is stored unvalidated
SearchRow(d, title, file_name, m) ==
    [title |-> title, content |-> "",
     file_path |-> storage_path(d, [name |-> file_name, ext |-> ".A", size |-> 12]),
     file_name |-> file_name, file_size |-> 12, document_type_id |-> 0,
     metadata_values |-> Json(m)]

InitSearch ==
    /\ \E t1 \in SearchTitles, t2 \in SearchTitles, f \in SearchFileNames,
          m1 \in SearchMaps, m2 \in SearchMaps :
         documents = (1 :> SearchRow(1, t1, f, m1)) @@ (2 :> SearchRow(2, t2, f, m2))
    /\ document_versions = <<>>
    /\ metadata_fields = <<>>
    /\ document_types = <<>>
    /\ document_type_metadata = {}
    /\ uploads = {[path |-> documents[d].file_path, state |-> "complete"] : d \in {1, 2}}
    /\ uuid_ctr = 2
    /\ sess = [p \in Sessions |-> IdleSess]
    /\ categories = <<>>
    /\ category_hierarchy = {}
    /\ vq = VqOff

BeginSearch(p) ==
    /\ sess[p].pc = "idle"
    /\ \E f \in FileNameFilters, t \in TitleFilters, m \in SearchMaps,
          skip \in {0, 1}, limit \in {1, 2} :
         sess' = [sess EXCEPT ![p] = [IdleSess EXCEPT !.op = "search", !.pc = "query",
                     !.filename = f, !.title = t, !.metadata_values = m,
                     !.skip = skip, !.limit = limit]]
    /\ UNCHANGED <<documents, document_versions, metadata_fields, document_types,
                   document_type_metadata, uploads, uuid_ctr, vq, categories,
                   category_hierarchy>>

Search(p) ==
    /\ sess[p].op = "search" /\ sess[p].pc = "query"
    /\ sess' = [sess EXCEPT ![p].pc = "done",
                            ![p].found = search_documents(sess[p].filename, sess[p].title,
                                             sess[p].metadata_values,
                                             sess[p].skip, sess[p].limit)]
    /\ UNCHANGED <<documents, document_versions, metadata_fields, document_types,
                   document_type_metadata, uploads, uuid_ctr, vq, categories,
                   category_hierarchy>>

\* one client searching a table of two documents
NextSearch == BeginSearch("s1") \/ Search("s1") \/ Return("s1")

SpecSearch == InitSearch /\ [][NextSearch]_vars

----------------------------------------------------------------------------
(* Categories: CategoryRepository and CategoryService *)

CategoryIds   == {1, 2, 3}
CategoryNames == {"Finance", "Legal", "HR"}

\* the depth of calls the interpreter allows before it raises RecursionError,
\* scaled to the model: more than any path without a repeated category
RecursionLimit == Cardinality(CategoryIds) + 1

\* category.children: the categories joined through category_hierarchy
children(category_id) ==
    SortedSeq({r.child_id : r \in {h \in category_hierarchy :
                   h.parent_id = category_id /\ h.child_id \in DOMAIN categories}})

NoneTree       == [id |-> 0, children |-> <<>>]
RecursionError == [id |-> -1, children |-> <<>>]
IsTree(tree)   == tree # NoneTree

\* the dictionary of a category, or RecursionError when a call below it raised
TreeOf(category_id, sub) ==
    IF \E i \in 1..Len(sub) : sub[i] = RecursionError THEN RecursionError
    ELSE [id |-> category_id, children |-> SelectSeq(sub, IsTree)]

\* a variant that hands every child an empty set instead of seen.copy()
RECURSIVE convert_to_tree_unseen(_, _, _)
convert_to_tree_unseen(category_id, seen, depth) ==
    IF depth > RecursionLimit THEN RecursionError
    ELSE IF category_id \in seen THEN NoneTree
    ELSE TreeOf(category_id,
                [i \in 1..Len(children(category_id)) |->
                    convert_to_tree_unseen(children(category_id)[i], {}, depth + 1)])

\* convert_to_tree(category, seen), called at the given depth of the call stack
RECURSIVE convert_to_tree(_, _, _)
convert_to_tree(category_id, seen, depth) ==
    IF depth > RecursionLimit THEN RecursionError
    ELSE IF category_id \in seen THEN NoneTree
    ELSE TreeOf(category_id,
                [i \in 1..Len(children(category_id)) |->
                    convert_to_tree(children(category_id)[i],
                                    seen \cup {category_id}, depth + 1)])

\* CategoryRepository.get_root_categories: the categories that are no child
get_root_categories ==
    SortedSeq({c \in DOMAIN categories :
                  \A h \in category_hierarchy : h.child_id # c})

\* CategoryRepository.get_category_tree: the given category or the roots
repository_get_category_tree(category_id) ==
    IF category_id # 0
    THEN IF category_id \in DOMAIN categories THEN <<category_id>> ELSE <<>>
    ELSE get_root_categories

\* CategoryService.get_category_tree: the RecursionError of a call propagates
get_category_tree(category_id) ==
    LET roots == repository_get_category_tree(category_id)
        trees == [i \in 1..Len(roots) |-> convert_to_tree(roots[i], {}, 1)]
    IN  IF \E i \in 1..Len(trees) : trees[i] = RecursionError
        THEN [err |-> Raise("RecursionError"), tree |-> <<>>]
        ELSE [err |-> NoErr, tree |-> SelectSeq(trees, IsTree)]

\* the rows of category_hierarchy after parent.children.append(category) for
\* every parent_id that get_category finds
with_parents(table, category_id, parent_ids, existing) ==
    table \cup {[parent_id |-> q, child_id |-> category_id] : q \in parent_ids \cap existing}

\* CategoryRepository.create_category: add, flush, append to the parents found
\* (the flushed category itself among them), commit
CreateCategory(p) ==
    /\ sess[p].pc = "idle"
    /\ NextId(categories) \in CategoryIds
    /\ \E name \in CategoryNames, parent_ids \in SUBSET CategoryIds :
         LET id == NextId(categories)
         IN  IF \E c \in DOMAIN categories : categories[c].name = name
             THEN /\ sess' = [sess EXCEPT ![p] =
                                [IdleSess EXCEPT !.op = "create_category", !.pc = "done",
                                                 !.err = Raise("IntegrityError")]]
                  /\ UNCHANGED <<categories, category_hierarchy>>
             ELSE /\ categories' = Insert(categories, [name |-> name])
                  /\ category_hierarchy' =
                        with_parents(category_hierarchy, id, parent_ids,
                                     DOMAIN categories \cup {id})
                  /\ sess' = [sess EXCEPT ![p] =
                                [IdleSess EXCEPT !.op = "create_category", !.pc = "done",
                                                 !.category_id = id, !.committed = TRUE]]
    /\ UNCHANGED <<documents, document_versions, metadata_fields, document_types,
                   document_type_metadata, uploads, uuid_ctr, vq>>

\* CategoryRepository.update_category with parent_ids given: clear the parents,
\* append the category to every parent found, commit; None for a missing id
UpdateCategory(p) ==
    /\ sess[p].pc = "idle"
    /\ \E category_id \in CategoryIds, parent_ids \in SUBSET CategoryIds :
         IF category_id \notin DOMAIN categories
         THEN /\ sess' = [sess EXCEPT ![p] =
                            [IdleSess EXCEPT !.op = "update_category", !.pc = "done"]]
              /\ UNCHANGED <<categories, category_hierarchy>>
         ELSE /\ category_hierarchy' =
                    with_parents({h \in category_hierarchy : h.child_id # category_id},
                                 category_id, parent_ids, DOMAIN categories)
              /\ sess' = [sess EXCEPT ![p] =
                            [IdleSess EXCEPT !.op = "update_category", !.pc = "done",
                                        !.category_id = category_id, !.committed = TRUE]]
              /\ UNCHANGED categories
    /\ UNCHANGED <<documents, document_versions, metadata_fields, document_types,
                   document_type_metadata, uploads, uuid_ctr, vq>>

\* CategoryService.get_category_tree(category_id), 0 for no category_id
GetCategoryTree(p) ==
    /\ sess[p].pc = "idle"
    /\ \E category_id \in {0} \cup CategoryIds :
         LET r == get_category_tree(category_id)
         IN  sess' = [sess EXCEPT ![p] =
                        [IdleSess EXCEPT !.op = "get_category_tree", !.pc = "done",
                                         !.category_id = category_id,
                                         !.err = r.err, !.tree = r.tree]]
    /\ UNCHANGED <<documents, document_versions, metadata_fields, document_types,
                   document_type_metadata, uploads, uuid_ctr, vq, categories,
                   category_hierarchy>>

\* one client writes the category graph and reads its tree
NextCategory ==
    \/ CreateCategory("s1") \/ UpdateCategory("s1") \/ GetCategoryTree("s1")
    \/ Return("s1")

SpecCategory == Init /\ [][NextCategory]_vars

----------------------------------------------------------------------------
(* The program: concurrent handlers; and the same handlers one request at a time *)

Begin(p) == BeginCreate(p) \/ BeginUpdate(p) \/ BeginDelete(p)

Step(p) ==
    \/ CreateValidate(p) \/ CreateSaveFile(p) \/ CreateRepoCreate(p) \/ CreateSetFields(p)
    \/ UpdateGetById(p) \/ UpdateArchive(p) \/ UpdateCommit(p) \/ UpdateRefresh(p)
    \/ DeleteGetById(p) \/ DeleteCommit(p)
    \/ Return(p)

Next == \E p \in Sessions : Begin(p) \/ Step(p)

Spec == Init /\ [][Next]_vars

AllIdle == \A q \in Sessions : sess[q].pc = "idle"

NextSeq == \E p \in Sessions : (AllIdle /\ Begin(p)) \/ Step(p)

SpecSeq == Init /\ [][NextSeq]_vars

----------------------------------------------------------------------------
(* Requests on a stored document: the registry holds the types Policy      *)
(* (requires confidential) and Memo (optional n2), and a Policy document   *)
(* has been created from report.txt.                                       *)

StoredDocument ==
    [title |-> "Report Q1", content |-> "",
     file_path |-> storage_path(1, [name |-> "report.txt", ext |-> ".txt", size |-> 12]),
     file_name |-> "report.txt", file_size |-> 12, document_type_id |-> 1,
     metadata_values |-> Json(<<[k |-> "confidential", v |-> JBool(TRUE)]>>)]

InitMeta ==
    /\ documents = (1 :> StoredDocument)
    /\ document_versions = <<>>
    /\ metadata_fields = (1 :> ConfidentialField) @@ (2 :> Field2Config)
    /\ document_types = (1 :> [name |-> "Policy"]) @@ (2 :> [name |-> "Memo"])
    /\ document_type_metadata =
           {[document_type_id |-> 1, metadata_field_id |-> 1, is_required |-> TRUE],
            [document_type_id |-> 2, metadata_field_id |-> 2, is_required |-> FALSE]}
    /\ uploads = {[path |-> StoredDocument.file_path, state |-> "complete"]}
    /\ uuid_ctr = 1
    /\ sess = [p \in Sessions |-> IdleSess]
    /\ categories = <<>>
    /\ category_hierarchy = {}
    /\ vq = VqOff

BeginMeta(p) == BeginUpdateMetadata(p) \/ BeginUpdate(p) \/ BeginDelete(p)

StepMeta(p) ==
    \/ UpdateMetadataGetById(p) \/ UpdateMetadataValidate(p) \/ UpdateMetadataCommit(p)
    \/ UpdateGetById(p) \/ UpdateArchive(p) \/ UpdateCommit(p) \/ UpdateRefresh(p)
    \/ DeleteGetById(p) \/ DeleteCommit(p)
    \/ Return(p)

NextMeta == \E p \in Sessions : BeginMeta(p) \/ StepMeta(p)

SpecMeta == InitMeta /\ [][NextMeta]_vars

\* the registry changes under the requests that validate: one client updates
\* the metadata of the stored document and creates one document more, while
\* another associates and dissociates fields
BeginRevalidate ==
    \/ BeginUpdateMetadata("s1")
    \/ BeginCreateWithin("s1", StoredDocument.file_path.uuid + 1)
    \/ BeginAssociate("s2") \/ BeginDissociate("s2")

StepRevalidate ==
    \/ UpdateMetadataGetById("s1") \/ UpdateMetadataValidate("s1")
    \/ UpdateMetadataCommit("s1")
    \/ CreateValidate("s1") \/ CreateSaveFile("s1") \/ CreateRepoCreate("s1")
    \/ CreateSetFields("s1")
    \/ AssociateExecute("s2") \/ DissociateExecute("s2")
    \/ \E p \in Sessions : Return(p)

NextRevalidate == BeginRevalidate \/ StepRevalidate

SpecRevalidate == InitMeta /\ [][NextRevalidate]_vars

----------------------------------------------------------------------------
(* Creation, deletion and retrieval of documents, with one creation more   *)
(* than there are files in the other specifications.                       *)

BeginLife(p) == BeginCreateWithin(p, MaxFiles + 1) \/ BeginDelete(p) \/ BeginGet(p)

StepLife(p) ==
    \/ CreateValidate(p) \/ CreateSaveFile(p) \/ CreateRepoCreate(p) \/ CreateSetFields(p)
    \/ DeleteGetById(p) \/ DeleteCommit(p)
    \/ GetDocument(p)
    \/ Return(p)

NextLife == \E p \in Sessions : BeginLife(p) \/ StepLife(p)

SpecLife == Init /\ [][NextLife]_vars

----------------------------------------------------------------------------
(* The registry operations, concurrent, from the registry of Init: the     *)
(* field confidential, required by the type Policy.                        *)

BeginRegistry(p) ==
    \/ BeginCreateField(p) \/ BeginCreateType(p) \/ BeginAssociate(p)
    \/ BeginDissociate(p) \/ BeginUpdateTypeFields(p)

StepRegistry(p) ==
    \/ CreateFieldGetByName(p) \/ CreateFieldCommit(p)
    \/ CreateTypeGetByName(p) \/ CreateTypeCommit(p) \/ CreateTypeAssociate(p)
    \/ AssociateExecute(p) \/ DissociateExecute(p)
    \/ UpdateTypeFieldsGetType(p) \/ UpdateTypeFieldsClear(p)
    \/ UpdateTypeFieldsAssociate(p)
    \/ Return(p)

NextRegistry == \E p \in Sessions : BeginRegistry(p) \/ StepRegistry(p)

SpecRegistry == Init /\ [][NextRegistry]_vars

----------------------------------------------------------------------------
(* The storage operations, concurrent, on an empty storage *)

BeginStorage(p) == BeginSaveFile(p) \/ BeginDeleteFile(p)

StepStorage(p) ==
    \/ SaveFile(p)
    \/ LocalDeleteExists(p) \/ LocalDeleteRemove(p) \/ S3DeleteObject(p)
    \/ Return(p)

NextStorage == \E p \in Sessions : BeginStorage(p) \/ StepStorage(p)

SpecStorage == Init /\ [][NextStorage]_vars

----------------------------------------------------------------------------
(* Properties of the version ledger *)

VersionNumbers(d) == {document_versions[i].version_number : i \in versions(d)}

\* in this step session p commits its update of document d
UpdateCommits(p, d) ==
    /\ sess[p].op = "update" /\ sess[p].pc = "commit" /\ sess[p].document_id = d
    /\ sess'[p].pc = "refresh"

\* in this step document d comes into existence
Created(d) == d \notin DOMAIN documents /\ d \in DOMAIN documents'

C2_SnapshotHoldsPreUpdateValues ==
    [][\A i \in DOMAIN document_versions' \ DOMAIN document_versions :
          LET v == document_versions'[i]
              d == v.document_id
          IN  /\ d \in DOMAIN documents /\ d \in DOMAIN documents'
              /\ v.title = documents[d].title
              /\ v.content = documents[d].content
              /\ v.file_path = documents[d].file_path
              /\ v.file_name = documents[d].file_name
              /\ v.file_size = documents[d].file_size
              /\ v.version_number = 1 => v.title \in CreateTitles /\ v.content = ""
              /\ \E p \in Sessions :
                    /\ UpdateCommits(p, d)
                    /\ documents'[d].title = sess[p].title
                    /\ documents'[d].content = sess[p].content]_vars

C2_Witness ==
    /\ 1 \in DOMAIN documents /\ Len(get_versions(1)) = 2
    /\ get_versions(1)[1].title = "Report Q1"
    /\ get_versions(1)[1].file_name = "report.txt"
    /\ get_versions(1)[1].file_size = 12
    /\ get_versions(1)[2].title = "Report Q2"
    /\ documents[1].title = "Report Q2"

\* C3: an update is atomic with respect to its snapshot: a step that changes a
\* document's title or content adds a version row of that document, the step
\* that adds the row leaves the document with the values the update wrote, and
\* an update that ends with an error, at whatever step, has committed nothing.
C3_UpdateAtomic ==
    [][/\ \A d \in DOMAIN documents \cap DOMAIN documents' :
             (\/ documents'[d].title # documents[d].title
              \/ documents'[d].content # documents[d].content)
                => versions(d)' \ versions(d) # {}
       /\ \A p \in Sessions, d \in DOMAIN documents' :
             UpdateCommits(p, d) => /\ documents'[d].title = sess[p].title
                                    /\ documents'[d].content = sess[p].content
       /\ \A p \in Sessions :
             (sess'[p].op = "update" /\ sess'[p].pc = "done" /\ sess'[p].err # NoErr)
                => ~sess'[p].committed]_vars

\* C4: whatever the interleaving of concurrent updates of a document, its
\* version rows carry the numbers 1..n, none twice and none skipped.
C4_NoDuplicateNoSkip ==
    \A d \in DOMAIN documents : \A i, j \in versions(d) :
        /\ i # j => document_versions[i].version_number
                      # document_versions[j].version_number
        /\ document_versions[i].version_number \in 1..Cardinality(versions(d))

----------------------------------------------------------------------------
(* Properties of create *)

\* C8: in create with a document type, validation runs before any write: when
\* the validator fails, the request ends with the validator's own error, no
\* file has been saved, no storage name drawn and no Document record written.
C8_ValidationBeforeWrites ==
    [][\A p \in Sessions :
          (sess[p].op = "create" /\ sess[p].pc = "validate" /\ sess'[p] # sess[p]) =>
             LET r == validate_document_metadata(sess[p].document_type_id,
                                                 sess[p].metadata_values)
             IN  /\ sess[p].file_path = NullPath /\ ~sess[p].committed
                 /\ (sess[p].document_type_id # 0 /\ ~r.ok) =>
                       /\ sess'[p].pc = "done"
                       /\ sess'[p].err = r.err
                       /\ sess'[p].err.kind = "MetadataValidationError"
                       /\ sess'[p].file_path = NullPath
                       /\ sess'[p].document_id = 0 /\ ~sess'[p].committed
                       /\ UNCHANGED <<uploads, uuid_ctr, documents>>]_vars

C8_Witness ==
    \E p \in Sessions :
        /\ sess[p].op = "create" /\ sess[p].pc = "done"
        /\ sess[p].err = MetadataValidationError("Required field missing",
                                                 "confidential", <<>>)
        /\ uploads = {} /\ uuid_ctr = 0 /\ documents = <<>>

\* C9: in create, when the storage backend's save fails the request has written
\* no Document record: the documents are the same before and after the save,
\* and none was written earlier in the request.
C9_SaveFailureLeavesNoRecord ==
    [][\A p \in Sessions :
          (sess[p].op = "create" /\ sess[p].pc = "save_file" /\ sess'[p].pc = "done") =>
             /\ sess'[p].err.kind = "OSError"
             /\ documents' = documents
             /\ ~sess[p].committed /\ ~sess'[p].committed
             /\ sess'[p].document_id = 0]_vars

C9_Witness ==
    \E p \in Sessions :
        /\ sess[p].op = "create" /\ sess[p].pc = "done" /\ sess[p].err.kind = "OSError"
        /\ \E f \in uploads : f.state = "partial"
        /\ documents = <<>>

\* C10: in create, when the file was saved and persisting the Document record
\* then fails, the caller gets the distinct error kind OrphanedStorage.
C10_OrphanedStorageReported ==
    \A p \in Sessions :
        (/\ sess[p].op = "create" /\ sess[p].pc = "done"
         /\ sess[p].file_path # NullPath /\ sess[p].err # NoErr)
            => sess[p].err.kind = "OrphanedStorage"

----------------------------------------------------------------------------
(* Properties of update_metadata, update and delete on a stored document *)

\* C11: update_metadata with a document type re-validates and changes type
\* and metadata together: a failed validation ends the request with the
\* stored type and metadata unchanged, a successful request leaves the
\* document with the given type and the given metadata, and a document's type
\* never changes without its metadata becoming that of the same request.
C11_TypeAndMetadataTogether ==
    [][\A p \in Sessions :
          (sess[p].op = "update_metadata" /\ sess[p].document_type_id # 0
                                          /\ sess'[p] # sess[p]) =>
             LET d == sess[p].document_id
                 r == validate_document_metadata(sess[p].document_type_id,
                                                 sess[p].metadata_values)
             IN  /\ (sess[p].pc = "validate" /\ ~r.ok) =>
                       /\ sess'[p].pc = "done" /\ sess'[p].err = r.err
                       /\ UNCHANGED documents
                 /\ (sess[p].pc = "commit" /\ sess'[p].err = NoErr) =>
                       /\ d \in DOMAIN documents'
                       /\ documents'[d].document_type_id = sess[p].document_type_id
                       /\ documents'[d].metadata_values = Json(sess[p].metadata_values)]_vars

\* the stored metadata map of a document row (JSON null reads as no keys)
StoredMap(row) == IF row.metadata_values.null THEN <<>> ELSE row.metadata_values.map

\* C12: in every reachable state, for every document whose document type is
\* set, every key of its metadata map names a field associated with that type
\* and every required association of the type has its field name as a key.
C12_MetadataConformsToType ==
    \A d \in DOMAIN documents :
        documents[d].document_type_id # 0 =>
            /\ KeysAssociated(documents[d].document_type_id, StoredMap(documents[d]))
            /\ RequiredPresent(documents[d].document_type_id, StoredMap(documents[d]))

----------------------------------------------------------------------------
(* Properties of delete and get *)

\* session q holds the successful answer of a delete of document d
Deleted(q, d) ==
    /\ sess[q].op = "delete" /\ sess[q].pc = "done" /\ sess[q].document_id = d
    /\ sess[q].err = NoErr

\* C13: a delete of an id that does not exist fails with NotFound and changes
\* nothing; a delete of an existing document that commits answers success and
\* removes the document; and every get of an id whose delete has succeeded
\* fails with NotFound.
C13_DeleteThenGetNotFound ==
    [][\A p \in Sessions :
          LET d == sess[p].document_id
          IN  /\ (sess[p].op = "delete" /\ sess[p].pc = "get_by_id"
                     /\ sess'[p] # sess[p] /\ d \notin DOMAIN documents) =>
                       /\ sess'[p].pc = "done"
                       /\ sess'[p].err = Raise("HTTPException404")
                       /\ UNCHANGED <<documents, document_versions, uploads>>
              /\ (sess[p].op = "delete" /\ sess[p].pc = "commit"
                     /\ sess'[p].committed) =>
                       /\ sess'[p].err = NoErr
                       /\ d \notin DOMAIN documents'
              /\ (sess[p].op = "get" /\ sess[p].pc = "get_by_id"
                     /\ sess'[p] # sess[p]
                     /\ \E q \in Sessions : Deleted(q, d)) =>
                       sess'[p].err = Raise("HTTPException404")]_vars

\* session p looks up the document of an update or update_metadata request
LooksUp(p) ==
    /\ sess[p].op \in {"update", "update_metadata"} /\ sess[p].pc = "get_by_id"
    /\ sess'[p] # sess[p]

C15_NoVersionOutlivesDocument ==
    \A i \in DOMAIN document_versions :
        document_versions[i].document_id \in DOMAIN documents

----------------------------------------------------------------------------
(* Properties of the registry operations *)

\* session p executes its dissociate_metadata_field call in this step
Dissociates(p) ==
    /\ sess[p].op = "dissociate_metadata_field" /\ sess[p].pc = "execute"
    /\ sess'[p] # sess[p]

\* the association rows other than the pair (t, f)
OtherThan(t, f) ==
    {a \in document_type_metadata :
        a.document_type_id # t \/ a.metadata_field_id # f}

\* C16: dissociate_metadata_field is idempotent: a call removes the pair's
\* association and nothing else; a call for a pair that is not associated
\* (a second call, or a pair never associated) leaves the table as it is and
\* raises no error, so two calls leave the table as one call does.
C16_DissociateIdempotent ==
    [][\A p \in Sessions : Dissociates(p) =>
          LET t == sess[p].document_type_id
              f == sess[p].field_id
          IN  /\ dissociate_metadata_field(t, f, TRUE).err = NoErr
              /\ sess'[p].err # NoErr =>
                    /\ sess'[p].err = Raise("SQLAlchemyError")
                    /\ UNCHANGED document_type_metadata
              /\ sess'[p].err = NoErr =>
                    /\ document_type_metadata' = OtherThan(t, f)
                    /\ primary_key(t, f) = {} => UNCHANGED document_type_metadata
                    /\ dissociate_metadata_field(t, f, TRUE)'.table
                          = document_type_metadata']_vars

\* two calls for the same pair have both completed without error, and an
\* association of another pair is still in the table
C16_Witness ==
    \E p, q \in Sessions :
        /\ p # q
        /\ sess[p].op = "dissociate_metadata_field" /\ sess[p].pc = "done"
        /\ sess[q].op = "dissociate_metadata_field" /\ sess[q].pc = "done"
        /\ sess[p].err = NoErr /\ sess[q].err = NoErr
        /\ sess[p].document_type_id = sess[q].document_type_id
        /\ sess[p].field_id = sess[q].field_id
        /\ primary_key(sess[p].document_type_id, sess[p].field_id) = {}
        /\ \E a \in document_type_metadata :
              a.document_type_id = sess[p].document_type_id

\* session p executes an associate_metadata_field call in this step, directly
\* or as a round of the loops of create_document_type and
\* update_document_type_fields
Associates(p) ==
    /\ \/ sess[p].op = "associate_metadata_field" /\ sess[p].pc = "execute"
       \/ /\ sess[p].op \in {"create_document_type", "update_document_type_fields"}
          /\ sess[p].pc = "associate"
          /\ sess[p].next_assoc <= Len(sess[p].field_associations)
    /\ sess'[p] # sess[p]

\* the field that call associates
AssociatedField(p) ==
    IF sess[p].op = "associate_metadata_field" THEN sess[p].field_id
    ELSE sess[p].field_associations[sess[p].next_assoc].metadata_field_id

\* C17: associate_metadata_field is an idempotent add: a call for a pair
\* that is already associated completes without error and leaves exactly one
\* association row of the pair, and no pair ever has more than one row.
C17_AssociateIdempotent ==
    [][/\ \A t \in TypeIds, f \in FieldIds : Cardinality(primary_key(t, f)') <= 1
       /\ \A p \in Sessions :
            (Associates(p)
               /\ primary_key(sess[p].document_type_id, AssociatedField(p)) # {}) =>
                 /\ sess'[p].err \in {NoErr, Raise("SQLAlchemyError")}
                 /\ Cardinality(primary_key(sess[p].document_type_id,
                                            AssociatedField(p))') = 1]_vars

\* the association set a replace-all request asks for
Requested(p) ==
    {[document_type_id |-> sess[p].document_type_id,
      metadata_field_id |-> sess[p].field_associations[i].metadata_field_id,
      is_required |-> sess[p].field_associations[i].is_required] :
        i \in 1..Len(sess[p].field_associations)}

\* C18: replace-all-associations is atomic: every step of
\* update_document_type_fields either leaves the type's association set as it
\* is or makes it exactly the requested set, so a failure leaves the set of
\* before the call and nobody can read a cleared or partially re-added set.
C18_ReplaceAllAtomic ==
    [][\A p \in Sessions :
          (sess[p].op = "update_document_type_fields" /\ sess'[p] # sess[p]) =>
             LET t == sess[p].document_type_id
             IN  \/ metadata_fields_association(t)' = metadata_fields_association(t)
                 \/ /\ metadata_fields_association(t)' = Requested(p)
                    /\ sess'[p].pc = "done" /\ sess'[p].err = NoErr]_vars

\* C19: associating a field id that is not in the registry fails and adds
\* no association row, so every association row refers to an existing field and
\* an existing document type.
C19_AssociationsReferToExisting ==
    /\ \A a \in document_type_metadata :
          /\ a.metadata_field_id \in DOMAIN metadata_fields
          /\ a.document_type_id \in DOMAIN document_types
    /\ \A p \in Sessions :
          (sess[p].op = "associate_metadata_field" /\ sess[p].pc = "done"
             /\ sess[p].field_id \notin DOMAIN metadata_fields) => sess[p].err # NoErr

\* no two rows of the table share a name
NamesUnique(table) ==
    \A i, j \in DOMAIN table : table[i].name = table[j].name => i = j

\* session p is a create_metadata_field or create_document_type request whose
\* name is registered already
NameTaken(p) ==
    \/ /\ sess[p].op = "create_metadata_field"
       /\ \E f \in DOMAIN metadata_fields : metadata_fields[f].name = sess[p].name
    \/ /\ sess[p].op = "create_document_type"
       /\ \E t \in DOMAIN document_types : document_types[t].name = sess[p].name

\* the errors that report a uniqueness violation: the service's own check,
\* and the database's unique constraint
Conflict(err) == err \in {ValueError("already exists"), Raise("IntegrityError")}

\* C20: no two metadata fields and no two document types ever share a name;
\* a create_metadata_field or create_document_type whose name is registered
\* when it checks, or has been registered by a concurrent create when it
\* inserts, fails with a conflict error and leaves the registry unchanged.
C20_NamesUnique ==
    [][/\ NamesUnique(metadata_fields') /\ NamesUnique(document_types')
       /\ \A p \in Sessions :
            (NameTaken(p) /\ sess[p].pc \in {"get_by_name", "commit"}
                          /\ sess'[p] # sess[p]) =>
               /\ sess'[p].pc = "done"
               /\ Conflict(sess'[p].err) \/ sess'[p].err = Raise("SQLAlchemyError")
               /\ sess[p].pc = "get_by_name" => Conflict(sess'[p].err)
               /\ RegistryUnchanged]_vars

\* two overlapping creates of one field name: one has registered it, the
\* other has passed its check before that and has failed at its insert
C20_Witness ==
    \E p, q \in Sessions :
        /\ sess[p].op = "create_metadata_field" /\ sess[p].pc = "done"
        /\ sess[p].err = Raise("IntegrityError")
        /\ sess[q].op = "create_metadata_field" /\ sess[q].pc = "done"
        /\ sess[q].err = NoErr /\ sess[q].name = sess[p].name
        /\ \E f \in DOMAIN metadata_fields : metadata_fields[f].name = sess[p].name

----------------------------------------------------------------------------
(* Properties of the storage backends *)

\* session p ends a delete_file call in this step
DeleteFileEnds(p) ==
    /\ sess[p].op = "delete_file" /\ sess[p].pc # "done" /\ sess'[p].pc = "done"

C22_FailedSaveRegistersNothing ==
    [][\A p \in Sessions :
          (sess[p].op = "save_file" /\ sess[p].pc = "save"
             /\ sess'[p].pc = "done" /\ sess'[p].err # NoErr) =>
                resolvable' = resolvable]_vars

----------------------------------------------------------------------------
(* Properties of the storage names of create *)

\* session p saves the file of its create request in this step
SavesFile(p) ==
    /\ sess[p].op = "create" /\ sess[p].pc = "save_file" /\ sess'[p] # sess[p]

\* the location handles held by documents and by create requests under way
HandlesDistinct ==
    /\ \A d, e \in DOMAIN documents :
          (d # e /\ documents[d].file_path # NullPath) =>
              documents[d].file_path # documents[e].file_path
    /\ \A p, q \in Sessions :
          (p # q /\ sess[p].op = "create" /\ sess[q].op = "create"
                 /\ sess[p].file_path # NullPath) =>
              sess[p].file_path # sess[q].file_path

----------------------------------------------------------------------------
(* Properties of search *)

\* text contains sub as a run of consecutive characters
Contains(text, sub) ==
    \E i \in 0..(Len(text) - Len(sub)) : SubSeq(text, i + 1, i + Len(sub)) = sub

\* the stored metadata of the row has the key with exactly the queried value
HasExactly(row, key, value) ==
    \E i \in 1..Len(StoredMap(row)) :
        StoredMap(row)[i].k = key /\ StoredMap(row)[i].v = value

\* the row satisfies every supplied filter as the specification reads them
Satisfies(row, filename, title, metadata_filter) ==
    /\ filename # "" => /\ row.file_name # NullName
                        /\ Contains(lower(chars(row.file_name)), lower(chars(filename)))
    /\ title # "" => Contains(lower(chars(row.title)), lower(chars(title)))
    /\ \A i \in 1..Len(metadata_filter) :
          HasExactly(row, metadata_filter[i].k, metadata_filter[i].v)

\* C24: search returns exactly the documents that satisfy every supplied
\* filter (file name and title as case-insensitive substrings, each queried
\* metadata key stored with exactly the queried value, type included), cut to
\* the skip/limit window.
C24_SearchExact ==
    [][\A p \in Sessions :
          (sess[p].op = "search" /\ sess[p].pc = "query" /\ sess'[p].pc = "done") =>
             LET rows == SortedSeq({d \in DOMAIN documents :
                            Satisfies(documents[d], sess[p].filename, sess[p].title,
                                      sess[p].metadata_values)})
                 last == IF sess[p].skip + sess[p].limit < Len(rows)
                         THEN sess[p].skip + sess[p].limit ELSE Len(rows)
             IN  sess'[p].found = SubSeq(rows, sess[p].skip + 1, last)]_vars

----------------------------------------------------------------------------
(* Properties of validation against a changing registry *)

\* session p takes the validation step of a create or an update_metadata
Validates(p) ==
    /\ sess[p].op \in {"create", "update_metadata"}
    /\ sess[p].pc = "validate"
    /\ sess'[p] # sess[p]

\* the map conforms to the association rows of the type as they are now: the
\* type exists, every required field's name is a key, and every key names an
\* associated field whose per-value check the value passes
ConformsNow(type_id, m) ==
    /\ type_id \in DOMAIN document_types
    /\ \A a \in document_type_metadata :
          (/\ a.document_type_id = type_id
           /\ a.is_required
           /\ a.metadata_field_id \in DOMAIN metadata_fields)
             => metadata_fields[a.metadata_field_id].name \in Keys(m)
    /\ \A i \in 1..Len(m) :
          \E a \in document_type_metadata :
             /\ a.document_type_id = type_id
             /\ a.metadata_field_id \in DOMAIN metadata_fields
             /\ metadata_fields[a.metadata_field_id].name = m[i].k
             /\ LET field == metadata_fields[a.metadata_field_id]
                IN  IF field.is_multi_valued
                    THEN m[i].v.t = "list" /\ validate_each(field, m[i].v.items).ok
                    ELSE validate_metadata_value(field, m[i].v).ok

\* C25: the validation step of create and of update_metadata changes no
\* document, version, field, type or association, whether it succeeds or
\* fails, and it succeeds exactly when the map conforms to the registry as it
\* is at the moment of the call (a request without a document type is not
\* validated), so a change of the associations decides the next validation.
C25_ValidationPureUncached ==
    [][\A p \in Sessions :
          Validates(p) =>
             /\ UNCHANGED <<documents, document_versions, metadata_fields,
                            document_types, document_type_metadata>>
             /\ sess[p].document_type_id # 0 =>
                   ((sess'[p].pc # "done") <=>
                        ConformsNow(sess[p].document_type_id, sess[p].metadata_values))
             /\ sess'[p].pc = "done" =>
                   sess'[p].err.kind = "MetadataValidationError"]_vars

\* an update_metadata of type 1 with an empty map, which the initial required
\* association rejects, was accepted after the association was removed
C25_Witness ==
    /\ documents[1].document_type_id = 1
    /\ documents[1].metadata_values = Json(<<>>)
    /\ \E p \in Sessions : sess[p].op = "update_metadata" /\ sess[p].pc = "done"
                           /\ sess[p].err = NoErr

----------------------------------------------------------------------------
(* Properties of stored versions *)

\* C26: a version row, once written, is never changed: in every step after
\* which its document exists, the row is still there with the same
\* version_number, title, content, file_path, file_name and file_size, and a
\* row disappears only in the step that deletes its document.
C26_VersionsImmutable ==
    [][\A i \in DOMAIN document_versions :
          LET d == document_versions[i].document_id
          IN  /\ d \in DOMAIN documents' =>
                    /\ i \in DOMAIN document_versions'
                    /\ document_versions'[i] = document_versions[i]
              /\ i \notin DOMAIN document_versions' =>
                    d \in DOMAIN documents /\ d \notin DOMAIN documents']_vars

\* two versions of the stored document exist and an update_metadata has
\* committed beside them
C26_Witness ==
    /\ 1 \in DOMAIN documents
    /\ Cardinality(versions(1)) = 2
    /\ \E p \in Sessions : /\ sess[p].op = "update_metadata" /\ sess[p].pc = "done"
                           /\ sess[p].err = NoErr /\ sess[p].committed

----------------------------------------------------------------------------
(* Properties of the category tree *)

\* no category id occurs below itself in the tree
RECURSIVE NoIdBelowItself(_, _)
NoIdBelowItself(tree, ancestors) ==
    /\ tree.id \notin ancestors
    /\ \A i \in 1..Len(tree.children) :
          NoIdBelowItself(tree.children[i], ancestors \cup {tree.id})

\* some category reaches itself through category_hierarchy in one to three steps
Cyclic ==
    \E a \in DOMAIN categories, b \in DOMAIN categories, c \in DOMAIN categories :
        /\ [parent_id |-> a, child_id |-> b] \in category_hierarchy
        /\ \/ b = a
           \/ [parent_id |-> b, child_id |-> a] \in category_hierarchy
           \/ /\ [parent_id |-> b, child_id |-> c] \in category_hierarchy
              /\ [parent_id |-> c, child_id |-> a] \in category_hierarchy

\* C27: get_category_tree ends without RecursionError for every category
\* graph that create_category and update_category produce, cycles and
\* self-parents included, and in the trees returned no category id appears
\* among its own descendants.
C27_TreeTerminatesAcyclic ==
    \A p \in Sessions :
        (sess[p].op = "get_category_tree" /\ sess[p].pc = "done") =>
            /\ sess[p].err = NoErr
            /\ \A i \in 1..Len(sess[p].tree) : NoIdBelowItself(sess[p].tree[i], {})

\* the tree of a category on a cycle was returned, with a child in it
C27_Witness ==
    /\ Cyclic
    /\ \E p \in Sessions :
          /\ sess[p].op = "get_category_tree" /\ sess[p].pc = "done"
          /\ sess[p].err = NoErr
          /\ Len(sess[p].tree) = 1
          /\ Len(sess[p].tree[1].children) >= 1
          /\ [parent_id |-> sess[p].tree[1].children[1].id,
              child_id |-> sess[p].tree[1].id] \in category_hierarchy

----------------------------------------------------------------------------
(* Properties of the attributes the two document updates write *)

\* the attributes of a document that an update of title and content leaves alone
FileTypeAndMetadata(row) ==
    <<row.file_path, row.file_name, row.file_size, row.document_type_id,
      row.metadata_values>>

\* the attributes of a document that update_metadata leaves alone
TitleContentAndFile(row) ==
    <<row.title, row.content, row.file_path, row.file_name, row.file_size>>

\* in this step session p commits its update_metadata of document d
UpdateMetadataCommits(p, d) ==
    /\ sess[p].op = "update_metadata" /\ sess[p].pc = "commit"
    /\ sess[p].document_id = d
    /\ sess'[p].committed

\* C28: a committed update of title and content keeps every document under
\* its id with file_path, file_name, file_size, document type and metadata
\* map unchanged and adds exactly one version row; a committed
\* update_metadata keeps title, content and the file attributes of every
\* document and adds no version row; neither touches another document.
C28_DisjointAttributes ==
    [][\A p \in Sessions, d \in DocIds :
          /\ UpdateCommits(p, d) =>
                /\ DOMAIN documents' = DOMAIN documents
                /\ \A e \in DOMAIN documents :
                      /\ FileTypeAndMetadata(documents'[e]) = FileTypeAndMetadata(documents[e])
                      /\ e # d => documents'[e] = documents[e]
                /\ Cardinality(DOMAIN document_versions') =
                      Cardinality(DOMAIN document_versions) + 1
                /\ \A i \in DOMAIN document_versions :
                      /\ i \in DOMAIN document_versions'
                      /\ document_versions'[i] = document_versions[i]
          /\ UpdateMetadataCommits(p, d) =>
                /\ DOMAIN documents' = DOMAIN documents
                /\ \A e \in DOMAIN documents :
                      /\ TitleContentAndFile(documents'[e]) = TitleContentAndFile(documents[e])
                      /\ e # d => documents'[e] = documents[e]
                /\ document_versions' = document_versions]_vars

\* the stored document has been written by a committed update of title or
\* content and by a committed update_metadata
C28_Witness ==
    /\ 1 \in DOMAIN documents
    /\ documents[1].title # StoredDocument.title \/ documents[1].content # StoredDocument.content
    /\ documents[1].metadata_values # StoredDocument.metadata_values
    /\ versions(1) # {}
    /\ FileTypeAndMetadata(documents[1])[1] = StoredDocument.file_path

----------------------------------------------------------------------------
(* Properties of null values under validation *)

\* every value of the map is null for a single-valued field and a sequence of
\* nulls (the empty one included) for a multi-valued field
NullShaped(t, m) ==
    \A i \in 1..Len(m) : \A f \in DOMAIN metadata_fields :
        (Assoc(t, f) /\ metadata_fields[f].name = m[i].k) =>
            IF metadata_fields[f].is_multi_valued
            THEN /\ m[i].v.t = "list"
                 /\ \A j \in 1..Len(m[i].v.items) : m[i].v.items[j].t = "null"
            ELSE m[i].v.t = "null"

\* C29: the per-value check accepts null for every field, whatever its type,
\* enumeration domain and validation rules, so a map whose required keys are
\* present, whose keys all name associated fields and whose values are null
\* (single-valued field) or sequences of nulls, the empty sequence included
\* (multi-valued field), passes validate_document_metadata.
C29_NullPasses ==
    vq.phase = "done" =>
        /\ \A f \in DOMAIN metadata_fields :
              validate_metadata_value(metadata_fields[f], JNull) = Ok
        /\ (/\ vq.type_id \in DOMAIN document_types
            /\ RequiredPresent(vq.type_id, vq.metadata)
            /\ KeysAssociated(vq.type_id, vq.metadata)
            /\ NullShaped(vq.type_id, vq.metadata)) => vq.result = Ok

\* a required single-valued enum field without enumeration domain, given
\* null, passed
C29_Witness ==
    /\ vq.phase = "done" /\ vq.type_id = 1
    /\ Required(1, 1) /\ ~Assoc(1, 2)
    /\ metadata_fields[1].field_type = "enum"
    /\ metadata_fields[1].enum_values = None
    /\ ~metadata_fields[1].is_multi_valued
    /\ vq.metadata = <<[k |-> "n1", v |-> JNull]>>
    /\ vq.result = Ok

----------------------------------------------------------------------------
(* Properties of the visibility of a document under creation *)

\* the file attributes and the metadata of the record have been set
Built(row) ==
    /\ row.file_path # NullPath
    /\ row.file_name # NullName
    /\ row.file_size # NullSize
    /\ row.metadata_values # NullJson

\* C30: a document created with a file is never observable half-built: every
\* committed document record has its file_path, file_name, file_size and
\* metadata set, whether a create is under way, has failed between its steps
\* or has ended, and every get returns such a record.
C30_NeverHalfBuilt ==
    /\ \A d \in DOMAIN documents : Built(documents[d])
    /\ \A p \in Sessions :
          (sess[p].op = "get" /\ sess[p].pc = "done" /\ sess[p].err = NoErr) =>
              Built(sess[p].db_document)

====
